---------------------------- MODULE Spec2Model ----------------------------
(***************************************************************************)
(* Model of the document ingestion, embedding and retrieval pipeline of    *)
(* SupportCraft-Pro: adminController (uploadDocuments, getUploadStatus,    *)
(* processDocumentAsync, deleteDocument), the Tenant / Document /          *)
(* Embedding models, chatController.handleChatQuery and                    *)
(* similarityService.findSimilarDocuments.                                 *)
(*                                                                         *)
(* Every `await` of a handler is a step of its own: other handlers may run *)
(* between two awaits of the same handler (Node's event loop).  A mongoose *)
(* document is a private in-memory copy; save() writes its modified paths. *)
(***************************************************************************)
EXTENDS Integers, Sequences, FiniteSets, TLC

(***************************************************************************)
(* Bounds of the model.  MaxTokens and BATCH_SIZE are the code's 800 and   *)
(* 50 scaled down so that several chunks and several batches happen on     *)
(* short texts; Dim is the code's 1536 scaled down.                        *)
(***************************************************************************)
MaxDocs == 2
MaxTokens == 1
BATCH_SIZE == 2
MaxStoreFaults == 1
MaxRequests == 2
Dim == 2

\* generateBatchEmbeddingsWithRetry(texts, maxRetries = 3)
maxRetries == 3

DocIds == 1..MaxDocs
TenantIds == 1..2

Min(a, b) == IF a < b THEN a ELSE b

(***************************************************************************)
(* Texts.  A text is a sequence of characters, each "w" (a non-whitespace  *)
(* character) or "s" (a whitespace character).  A word is represented by   *)
(* its length, a chunk by the sequence of its words (joined by one space). *)
(***************************************************************************)
RECURSIVE SplitWs(_, _, _, _)
SplitWs(t, i, cur, acc) ==
    IF i > Len(t) THEN Append(acc, cur)
    ELSE IF t[i] = "s"
         THEN IF i > 1 /\ t[i - 1] = "s"
              THEN SplitWs(t, i + 1, cur, acc)
              ELSE SplitWs(t, i + 1, 0, Append(acc, cur))
         ELSE SplitWs(t, i + 1, cur + 1, acc)

\* text.split(/\s+/): the words between maximal whitespace runs; a leading or
\* trailing run yields an empty word, the empty text yields one empty word.
SplitWords(t) == SplitWs(t, 1, 0, <<>>)

\* Variant of ChunkLoop: a chunk is closed only when it holds more than
\* maxTokens words.
RECURSIVE ChunkLoopOverfull(_, _, _, _, _)
ChunkLoopOverfull(words, i, currentChunk, chunks, maxTokens) ==
    IF i > Len(words)
    THEN IF Len(currentChunk) > 0 THEN Append(chunks, currentChunk) ELSE chunks
    ELSE LET c == Append(currentChunk, words[i])
         IN  IF Len(c) > maxTokens
             THEN ChunkLoopOverfull(words, i + 1, <<>>, Append(chunks, c), maxTokens)
             ELSE ChunkLoopOverfull(words, i + 1, c, chunks, maxTokens)

\* for (const word of words) { push; if (currentChunk.length >= maxTokens)
\* close the chunk }; the last, partial chunk is closed when it is not empty
RECURSIVE ChunkLoop(_, _, _, _, _)
ChunkLoop(words, i, currentChunk, chunks, maxTokens) ==
    IF i > Len(words)
    THEN IF Len(currentChunk) > 0 THEN Append(chunks, currentChunk) ELSE chunks
    ELSE LET c == Append(currentChunk, words[i])
         IN  IF Len(c) >= maxTokens
             THEN ChunkLoop(words, i + 1, <<>>, Append(chunks, c), maxTokens)
             ELSE ChunkLoop(words, i + 1, c, chunks, maxTokens)

splitTextIntoChunks(text, maxTokens) ==
    ChunkLoop(SplitWords(text), 1, <<>>, <<>>, maxTokens)

\* fileParser's splitTextIntoChunks: [] for a text that is empty (falsy)
fileParser_splitTextIntoChunks(text, maxTokens) ==
    IF text = <<>> THEN <<>> ELSE splitTextIntoChunks(text, maxTokens)

\* chunk.trim().length === 0: every word of the chunk is empty.
IsBlank(chunk) == \A k \in 1..Len(chunk) : chunk[k] = 0
\* The chunk is the empty string (falsy): a single empty word.
IsEmptyString(chunk) == chunk = <<0>>

RECURSIVE TrimLeft(_)
TrimLeft(t) == IF t # <<>> /\ Head(t) = "s" THEN TrimLeft(Tail(t)) ELSE t
RECURSIVE TrimRight(_)
TrimRight(t) ==
    IF t # <<>> /\ t[Len(t)] = "s" THEN TrimRight(SubSeq(t, 1, Len(t) - 1)) ELSE t
Trim(t) == TrimRight(TrimLeft(t))

\* parseFileContent: a text file is trimmed; a CSV file becomes one line of
\* text per row, each ending in a newline ("" without rows); a PDF is
\* trimmed and rejected when it holds no text.
ParseFails(file) == file.type = "pdf" /\ Trim(file.raw) = <<>>
parseFileContent(file) ==
    CASE file.type = "txt" -> Trim(file.raw)
      [] file.type = "csv" -> IF Trim(file.raw) = <<>> THEN <<>>
                              ELSE Append(Trim(file.raw), "s")
      [] OTHER -> Trim(file.raw)

\* The uploaded files of the model.
Files ==
    { [type |-> "txt", raw |-> <<"w">>],
      [type |-> "txt", raw |-> <<"w", "s", "w">>],
      [type |-> "txt", raw |-> <<"s", "w", "s", "w", "s", "s", "w">>],
      [type |-> "csv", raw |-> <<"w">>],
      [type |-> "txt", raw |-> <<"s">>],
      [type |-> "pdf", raw |-> <<"s">>] }

(***************************************************************************)
(* State.                                                                  *)
(***************************************************************************)
VARIABLES
    documents,     \* Document collection: DocIds -> record
    embeddingsDb,  \* Embedding collection, in insertion order
    tenants,       \* Tenant collection: TenantIds -> subscription counters
    job,           \* processDocumentAsync run of each document
    uploads,       \* uploadDocuments requests
    deletes,       \* deleteDocument requests
    chats,         \* handleChatQuery requests
    statusResp,    \* last getUploadStatus response per document
    searchResult,  \* last findSimilarDocuments call and what it returned
    chatReply,     \* last test chat query: message, matches, reply
    chunkerCall,   \* last call of splitTextIntoChunks and what it returned
    answerCall,    \* last call of generateChatResponse and what it returned
    sockets,       \* chat socket: user:message handlers and the events emitted
    faultsLeft,    \* data-store faults the environment may still inject
    providerFlaky  \* whether the embedding provider may fail

vars == <<documents, embeddingsDb, tenants, job, uploads, deletes, chats,
          statusResp, searchResult, chatReply, chunkerCall, answerCall,
          sockets, faultsLeft, providerFlaky>>

StoreError == "data store error"
NoChunksError == "No content chunks generated from document"
NoEmbeddingsError == "Failed to create any embeddings"

\* Document schema defaults (processingStatus pending, counters 0, active).
NoDocument ==
    [exists |-> FALSE, tenantId |-> 0, content |-> <<>>,
     processingStatus |-> "pending", processingError |-> "",
     chunkCount |-> 0, embeddingCount |-> 0, isActive |-> TRUE]

NewDocument(t, content) ==
    [NoDocument EXCEPT !.exists = TRUE, !.tenantId = t, !.content = content]

\* required: true on a String path rejects the empty string.
DocumentValid(content) == content # <<>>
EmbeddingValid(e) == ~IsEmptyString(e.text)


(***************************************************************************)
(* mongoose save(): writes the modified paths of the in-memory copy.       *)
(***************************************************************************)
ApplySave(stored, local, dirty) ==
    [f \in DOMAIN stored |-> IF f \in dirty THEN local[f] ELSE stored[f]]

\* A data-store call succeeds, or fails while the environment has faults left.
Fault(storeOk) ==
    IF storeOk THEN faultsLeft' = faultsLeft
    ELSE faultsLeft > 0 /\ faultsLeft' = faultsLeft - 1

\* A provider call fails only when the provider is flaky.
ProviderMay(provOk) == provOk \/ providerFlaky

\* What a failed embedding call throws: the provider's error is permanent
\* (insufficient_quota, invalid_api_key) or transient (rate_limit_exceeded,
\* anything else); a text without content is rejected before the provider is
\* called.
ProviderErrors == {"permanent", "transient"}
\* the outcomes of a provider call
ProviderOutcomes == {"ok"} \cup ProviderErrors
\* what the embedding call throws when it does not return a vector
Thrown(outcome) == IF outcome = "ok" THEN "input" ELSE outcome

(***************************************************************************)
(* processDocumentAsync(documentId, tenantId)                              *)
(***************************************************************************)
\* The locals of one run; attempt, delays and lastError are those of the
\* retry wrapper that is being called.  History: embedded (the chunk indexes
\* the provider embedded), starts (how often the run of this document was
\* started), gaveUp (the batches whose batch call failed after its retries),
\* persisted (the batches whose records and progress were stored) and
\* attempted (the chunk indexes whose iteration of the fallback loop ended).
NoJob ==
    [pc |-> "idle", loaded |-> FALSE,
     doc |-> [processingStatus |-> "pending", processingError |-> "",
              chunkCount |-> 0, embeddingCount |-> 0],
     dirty |-> {}, batchIndex |-> 0, i |-> 0, attempt |-> 1, delays |-> <<>>,
     lastError |-> "none", processedChunks |-> 0, embedded |-> {}, result |-> "none",
     starts |-> 0, gaveUp |-> {}, persisted |-> {}, attempted |-> {}]

Chunks(d) == splitTextIntoChunks(documents[d].content, MaxTokens)

\* chunks.slice(batchIndex, batchIndex + BATCH_SIZE)
BatchChunks(d, batchIndex) ==
    SubSeq(Chunks(d), batchIndex + 1, Min(batchIndex + BATCH_SIZE, Len(Chunks(d))))

\* generateBatchEmbeddings' cleanTexts: the texts that are not blank.
CleanTexts(batch) == SelectSeq(batch, LAMBDA c : ~IsBlank(c))

\* The provider's vector for a text (opaque; a function of the text).
RECURSIVE SumWords(_)
SumWords(chunk) == IF chunk = <<>> THEN 0 ELSE Head(chunk) + SumWords(Tail(chunk))
ProviderVector(chunk) == [k \in 1..Dim |-> IF k = 1 THEN SumWords(chunk) ELSE 1]

\* embeddings.map((embedding, idx) => ({ text: batchChunks[idx], ... }))
EmbeddingDocs(d, batchIndex) ==
    LET batch == BatchChunks(d, batchIndex)
        clean == CleanTexts(batch)
    IN  [idx \in 1..Len(clean) |->
            [tenantId |-> documents[d].tenantId, documentId |-> d,
             text |-> batch[idx], embedding |-> ProviderVector(clean[idx]),
             chunkIndex |-> batchIndex + idx - 1, category |-> "none",
             isActive |-> TRUE]]

\* Chunk indexes of the batch whose text the provider embeds.
BatchEmbedded(d, batchIndex) ==
    {batchIndex + k - 1 : k \in {x \in 1..Len(BatchChunks(d, batchIndex)) :
                                    ~IsBlank(BatchChunks(d, batchIndex)[x])}}

\* Variant of Catch: the failed run is queued again (status back to pending).
CatchRequeues(j, msg) ==
    [j EXCEPT !.doc = [@ EXCEPT !.processingStatus = "pending",
                                !.processingError = msg],
              !.dirty = @ \cup {"processingStatus", "processingError"},
              !.pc = "saveFailed"]

\* Variant of Catch: the status is set to failed, the message is not recorded.
CatchNoMessage(j, msg) ==
    [j EXCEPT !.doc = [@ EXCEPT !.processingStatus = "failed"],
              !.dirty = @ \cup {"processingStatus"},
              !.pc = "saveFailed"]

\* catch (error): document.processingStatus = "failed", processingError = message.
Catch(j, msg) ==
    [j EXCEPT !.doc = [@ EXCEPT !.processingStatus = "failed",
                                !.processingError = msg],
              !.dirty = @ \cup {"processingStatus", "processingError"},
              !.pc = "saveFailed"]

\* Variant of Finish: completed only when every chunk was embedded.
FinishFailsOnPartial(j) ==
    IF j.processedChunks < j.doc.chunkCount THEN Catch(j, NoEmbeddingsError)
    ELSE [j EXCEPT !.doc = [@ EXCEPT !.processingStatus = "completed"],
                   !.dirty = @ \cup {"processingStatus"},
                   !.pc = "saveCompleted"]

\* After the batch loop: throw when nothing was embedded, else mark completed.
Finish(j) ==
    IF j.processedChunks = 0 THEN Catch(j, NoEmbeddingsError)
    ELSE [j EXCEPT !.doc = [@ EXCEPT !.processingStatus = "completed"],
                   !.dirty = @ \cup {"processingStatus"},
                   !.pc = "saveCompleted"]

\* End of one batch iteration: the 100 ms pause when another batch follows.
NextBatch(d, j) ==
    IF j.batchIndex + BATCH_SIZE < Len(Chunks(d))
    THEN [j EXCEPT !.pc = "interBatchDelay"]
    ELSE Finish(j)

\* Variant of NextChunk: the fallback loop is left after its first chunk.
NextChunkBreaks(d, j) ==
    NextBatch(d, [j EXCEPT !.lastError = "none",
                           !.attempted = @ \cup {j.batchIndex + j.i}])

\* End of one iteration of the per-chunk fallback loop.
NextChunk(d, j) ==
    IF j.i + 1 < Len(BatchChunks(d, j.batchIndex))
    THEN [j EXCEPT !.i = @ + 1, !.attempt = 1, !.delays = <<>>,
                   !.lastError = "none", !.pc = "chunkEmbed",
                   !.attempted = @ \cup {j.batchIndex + j.i}]
    ELSE NextBatch(d, [j EXCEPT !.lastError = "none",
                                !.attempted = @ \cup {j.batchIndex + j.i}])

\* Variant of Fallback: a failed batch fails the whole run.
FallbackAborts(j) == Catch(j, "Batch failed")

\* catch (error) of a batch: process its chunks individually.
Fallback(j) ==
    [j EXCEPT !.i = 0, !.attempt = 1, !.delays = <<>>, !.lastError = "none",
              !.pc = "chunkEmbed"]

\* Variant of BackoffDelay: the same wait before every retry.
BackoffDelayFixed(attempt) == 1000

\* Math.min(1000 * Math.pow(2, attempt - 1), 5000)
BackoffDelay(attempt) == Min(1000 * (2 ^ (attempt - 1)), 5000)

\* Variant of BatchProgress: the size of the batch instead of the running total.
BatchProgressPerBatch(j, n) == n

\* document.embeddingCount = processedChunks, after processedChunks += n
BatchProgress(j, n) == j.processedChunks + n

Others == <<tenants, uploads, deletes, chats, statusResp, searchResult, chatReply, chunkerCall, answerCall, sockets,
                   providerFlaky>>

\* document = await Document.findById(documentId); status := processing
Job_findById(d, storeOk) ==
    /\ job[d].pc = "findById"
    /\ Fault(storeOk)
    /\ job' = [job EXCEPT ![d] =
          IF storeOk
          THEN [@ EXCEPT !.loaded = TRUE,
                         !.doc = [processingStatus |-> "processing",
                                  processingError |-> documents[d].processingError,
                                  chunkCount |-> documents[d].chunkCount,
                                  embeddingCount |-> documents[d].embeddingCount],
                         !.dirty = {"processingStatus"},
                         !.pc = "saveProcessing"]
          ELSE [@ EXCEPT !.pc = "done", !.result = "rejected"]]
    /\ UNCHANGED <<documents, embeddingsDb, Others>>

\* await document.save() of status processing; then the chunks are split
Job_saveProcessing(d, storeOk) ==
    /\ job[d].pc = "saveProcessing"
    /\ Fault(storeOk)
    /\ IF storeOk
       THEN /\ documents' = [documents EXCEPT ![d] =
                                ApplySave(@, job[d].doc, job[d].dirty)]
            /\ job' = [job EXCEPT ![d] =
                  IF Len(Chunks(d)) = 0
                  THEN Catch([@ EXCEPT !.dirty = {}], NoChunksError)
                  ELSE [@ EXCEPT !.doc = [@ EXCEPT !.chunkCount = Len(Chunks(d))],
                                 !.dirty = {"chunkCount"},
                                 !.pc = "saveChunkCount"]]
       ELSE /\ job' = [job EXCEPT ![d] = Catch(@, StoreError)]
            /\ UNCHANGED documents
    /\ UNCHANGED <<embeddingsDb, Others>>

\* await document.save() of chunkCount
Job_saveChunkCount(d, storeOk) ==
    /\ job[d].pc = "saveChunkCount"
    /\ Fault(storeOk)
    /\ IF storeOk
       THEN /\ documents' = [documents EXCEPT ![d] =
                                ApplySave(@, job[d].doc, job[d].dirty)]
            /\ job' = [job EXCEPT ![d] =
                  [@ EXCEPT !.dirty = {}, !.batchIndex = 0, !.attempt = 1,
                            !.delays = <<>>, !.pc = "batchEmbed"]]
       ELSE /\ job' = [job EXCEPT ![d] = Catch(@, StoreError)]
            /\ UNCHANGED documents
    /\ UNCHANGED <<embeddingsDb, Others>>

\* One attempt of generateBatchEmbeddingsWithRetry(batchChunks, 3)
Job_batchEmbed(d, outcome) ==
    /\ job[d].pc = "batchEmbed"
    /\ ProviderMay(outcome = "ok")
    /\ LET j == job[d]
           ok == outcome = "ok" /\ CleanTexts(BatchChunks(d, j.batchIndex)) # <<>>
           error == Thrown(outcome)
       IN  job' = [job EXCEPT ![d] =
              IF ok
              THEN [j EXCEPT !.embedded = @ \cup BatchEmbedded(d, j.batchIndex),
                             !.lastError = "none", !.pc = "insertMany"]
              ELSE IF j.attempt < maxRetries
                   THEN [j EXCEPT !.lastError = error, !.pc = "batchBackoff"]
                   ELSE Fallback([j EXCEPT !.gaveUp = @ \cup {j.batchIndex}])]
    /\ UNCHANGED <<documents, embeddingsDb, faultsLeft, Others>>

\* The backoff wait between two attempts of the batch call
Job_batchBackoff(d) ==
    /\ job[d].pc = "batchBackoff"
    /\ job' = [job EXCEPT ![d] =
          [@ EXCEPT !.delays = Append(@, BackoffDelay(job[d].attempt)),
                    !.attempt = @ + 1, !.pc = "batchEmbed"]]
    /\ UNCHANGED <<documents, embeddingsDb, faultsLeft, Others>>

\* await Embedding.insertMany(embeddingDocs); processedChunks += length
Job_insertMany(d, storeOk, k) ==
    /\ job[d].pc = "insertMany"
    /\ LET j == job[d]
           docs == EmbeddingDocs(d, j.batchIndex)
           valid == \A x \in 1..Len(docs) : EmbeddingValid(docs[x])
       IN  IF ~valid
           THEN /\ storeOk /\ k = 0
                /\ job' = [job EXCEPT ![d] = Fallback(j)]
                /\ UNCHANGED <<embeddingsDb, faultsLeft>>
           ELSE /\ Fault(storeOk)
                /\ IF storeOk
                   THEN /\ k = 0
                        /\ embeddingsDb' = embeddingsDb \o docs
                        /\ job' = [job EXCEPT ![d] =
                              [j EXCEPT !.processedChunks = @ + Len(docs),
                                        !.doc = [@ EXCEPT !.embeddingCount =
                                                    BatchProgress(j, Len(docs))],
                                        !.dirty = @ \cup {"embeddingCount"},
                                        !.pc = "saveBatchProgress"]]
                   ELSE /\ k < Len(docs)
                        /\ embeddingsDb' = embeddingsDb \o SubSeq(docs, 1, k)
                        /\ job' = [job EXCEPT ![d] = Fallback(j)]
    /\ UNCHANGED <<documents, Others>>

\* await document.save() of embeddingCount after a batch
Job_saveBatchProgress(d, storeOk) ==
    /\ job[d].pc = "saveBatchProgress"
    /\ Fault(storeOk)
    /\ IF storeOk
       THEN /\ documents' = [documents EXCEPT ![d] =
                                ApplySave(@, job[d].doc, job[d].dirty)]
            /\ job' = [job EXCEPT ![d] =
                  NextBatch(d, [@ EXCEPT !.dirty = {},
                                         !.persisted = @ \cup {job[d].batchIndex}])]
       ELSE /\ job' = [job EXCEPT ![d] = Fallback(@)]
            /\ UNCHANGED documents
    /\ UNCHANGED <<embeddingsDb, Others>>

\* One attempt of generateEmbeddingsWithRetry(batchChunks[i], 3)
Job_chunkEmbed(d, outcome) ==
    /\ job[d].pc = "chunkEmbed"
    /\ ProviderMay(outcome = "ok")
    /\ LET j == job[d]
           chunk == BatchChunks(d, j.batchIndex)[j.i + 1]
           ok == outcome = "ok" /\ ~IsBlank(chunk)
           error == Thrown(outcome)
       IN  job' = [job EXCEPT ![d] =
              IF ok
              THEN [j EXCEPT !.embedded = @ \cup {j.batchIndex + j.i},
                             !.lastError = "none", !.pc = "chunkSave"]
              ELSE IF j.attempt < maxRetries
                   THEN [j EXCEPT !.lastError = error, !.pc = "chunkBackoff"]
                   ELSE NextChunk(d, j)]
    /\ UNCHANGED <<documents, embeddingsDb, faultsLeft, Others>>

\* The backoff wait between two attempts of the single call
Job_chunkBackoff(d) ==
    /\ job[d].pc = "chunkBackoff"
    /\ job' = [job EXCEPT ![d] =
          [@ EXCEPT !.delays = Append(@, BackoffDelay(job[d].attempt)),
                    !.attempt = @ + 1, !.pc = "chunkEmbed"]]
    /\ UNCHANGED <<documents, embeddingsDb, faultsLeft, Others>>

\* await embeddingDoc.save(); processedChunks++
Job_chunkSave(d, storeOk) ==
    /\ job[d].pc = "chunkSave"
    /\ Fault(storeOk)
    /\ LET j == job[d]
           chunk == BatchChunks(d, j.batchIndex)[j.i + 1]
           e == [tenantId |-> documents[d].tenantId, documentId |-> d,
                 text |-> chunk, embedding |-> ProviderVector(chunk),
                 chunkIndex |-> j.batchIndex + j.i, category |-> "none",
                 isActive |-> TRUE]
       IN  IF storeOk
           THEN /\ embeddingsDb' = Append(embeddingsDb, e)
                /\ job' = [job EXCEPT ![d] =
                      [j EXCEPT !.processedChunks = @ + 1,
                                !.doc = [@ EXCEPT !.embeddingCount = j.processedChunks + 1],
                                !.dirty = @ \cup {"embeddingCount"},
                                !.pc = "saveChunkProgress"]]
           ELSE /\ job' = [job EXCEPT ![d] = NextChunk(d, j)]
                /\ UNCHANGED embeddingsDb
    /\ UNCHANGED <<documents, Others>>

\* await document.save() of embeddingCount after one chunk
Job_saveChunkProgress(d, storeOk) ==
    /\ job[d].pc = "saveChunkProgress"
    /\ Fault(storeOk)
    /\ IF storeOk
       THEN /\ documents' = [documents EXCEPT ![d] =
                                ApplySave(@, job[d].doc, job[d].dirty)]
            /\ job' = [job EXCEPT ![d] = NextChunk(d, [@ EXCEPT !.dirty = {}])]
       ELSE /\ job' = [job EXCEPT ![d] = NextChunk(d, @)]
            /\ UNCHANGED documents
    /\ UNCHANGED <<embeddingsDb, Others>>

\* The 100 ms pause between two batches
Job_interBatchDelay(d) ==
    /\ job[d].pc = "interBatchDelay"
    /\ job' = [job EXCEPT ![d] =
          [@ EXCEPT !.batchIndex = @ + BATCH_SIZE, !.attempt = 1,
                    !.delays = <<>>, !.pc = "batchEmbed"]]
    /\ UNCHANGED <<documents, embeddingsDb, faultsLeft, Others>>

\* await document.save() of status completed
Job_saveCompleted(d, storeOk) ==
    /\ job[d].pc = "saveCompleted"
    /\ Fault(storeOk)
    /\ IF storeOk
       THEN /\ documents' = [documents EXCEPT ![d] =
                                ApplySave(@, job[d].doc, job[d].dirty)]
            /\ job' = [job EXCEPT ![d] =
                  [@ EXCEPT !.dirty = {}, !.pc = "done", !.result = "resolved"]]
       ELSE /\ job' = [job EXCEPT ![d] = Catch(@, StoreError)]
            /\ UNCHANGED documents
    /\ UNCHANGED <<embeddingsDb, Others>>

\* catch: await document.save() of status failed and the message; rethrow
Job_saveFailed(d, storeOk) ==
    /\ job[d].pc = "saveFailed"
    /\ Fault(storeOk)
    /\ IF storeOk
       THEN documents' = [documents EXCEPT ![d] =
                             ApplySave(@, job[d].doc, job[d].dirty)]
       ELSE UNCHANGED documents
    /\ job' = [job EXCEPT ![d] =
          [@ EXCEPT !.dirty = IF storeOk THEN {} ELSE @,
                    !.pc = "done", !.result = "rejected"]]
    /\ UNCHANGED <<embeddingsDb, Others>>

\* One step of the run of document d; S, P and K are the outcomes the
\* environment may choose: of a data-store call, of a provider call, and the
\* number of records a failing insertMany wrote before it failed.
processDocumentAsync(d, S, P, K) ==
    \/ \E storeOk \in S : Job_findById(d, storeOk)
    \/ \E storeOk \in S : Job_saveProcessing(d, storeOk)
    \/ \E storeOk \in S : Job_saveChunkCount(d, storeOk)
    \/ \E outcome \in P : Job_batchEmbed(d, outcome)
    \/ Job_batchBackoff(d)
    \/ \E storeOk \in S, k \in K : Job_insertMany(d, storeOk, k)
    \/ \E storeOk \in S : Job_saveBatchProgress(d, storeOk)
    \/ \E outcome \in P : Job_chunkEmbed(d, outcome)
    \/ Job_chunkBackoff(d)
    \/ \E storeOk \in S : Job_chunkSave(d, storeOk)
    \/ \E storeOk \in S : Job_saveChunkProgress(d, storeOk)
    \/ Job_interBatchDelay(d)
    \/ \E storeOk \in S : Job_saveCompleted(d, storeOk)
    \/ \E storeOk \in S : Job_saveFailed(d, storeOk)

(***************************************************************************)
(* Tenant counters (Tenant.js).  A handler works on the copy of the tenant *)
(* it loaded; incrementX / decrementX change the copy and save() it.       *)
(***************************************************************************)
\* docIncs, docDecs and queryIncs are history: the increments and decrements
\* that were performed (stored) so far.
NewTenant(maxDocuments, maxQueries) ==
    [currentDocuments |-> 0, maxDocuments |-> maxDocuments,
     currentQueries |-> 0, maxQueriesPerMonth |-> maxQueries,
     docIncs |-> 0, docDecs |-> 0, queryIncs |-> 0]

canUploadDocument(t) == t.currentDocuments < t.maxDocuments
canMakeQuery(t) == t.currentQueries < t.maxQueriesPerMonth

\* The value a counter's save() stores: the copy's value.
StoreCounter(stored, copyValue) == copyValue

(***************************************************************************)
(* uploadDocuments: one request r with its files.                          *)
(***************************************************************************)
NoUpload ==
    [pc |-> "idle", tenantId |-> 0, currentDocuments |-> 0, files |-> <<>>,
     docId |-> 0]

FreeDocIds == {d \in DocIds : ~documents[d].exists}

\* The loop's next file, or the 202 response after the last one.
NextFile(u) ==
    IF Len(u.files) > 1
    THEN [u EXCEPT !.files = Tail(@), !.pc = "saveDocument"]
    ELSE [u EXCEPT !.files = <<>>, !.pc = "done"]

\* Variant of NewDocId: an _id that may already be in use.
ReusedDocId == CHOOSE d \in DocIds : \A e \in DocIds : d <= e

\* The document a new upload is stored under (a fresh _id).
NewDocId == CHOOSE d \in FreeDocIds : \A e \in FreeDocIds : d <= e

\* user.tenantId is loaded; the quota gate; multer yields the files
Upload_start(r, t, files) ==
    /\ uploads[r].pc = "idle"
    /\ uploads' = [uploads EXCEPT ![r] =
          IF canUploadDocument(tenants[t]) /\ Len(files) > 0
          THEN [@ EXCEPT !.pc = "saveDocument", !.tenantId = t,
                         !.currentDocuments = tenants[t].currentDocuments,
                         !.files = files]
          ELSE [@ EXCEPT !.pc = "done", !.tenantId = t]]
    /\ UNCHANGED <<documents, embeddingsDb, tenants, job, deletes, chats,
                   statusResp, searchResult, chatReply, chunkerCall, answerCall, sockets, faultsLeft, providerFlaky>>

\* parseFileContent(file); new Document({... "pending"}); await document.save()
Upload_saveDocument(r, storeOk) ==
    /\ uploads[r].pc = "saveDocument"
    /\ LET u == uploads[r]
           file == Head(u.files)
           content == parseFileContent(file)
       IN  IF ParseFails(file) \/ ~DocumentValid(content)
           THEN /\ storeOk
                /\ uploads' = [uploads EXCEPT ![r] = NextFile(u)]
                /\ UNCHANGED <<documents, faultsLeft>>
           ELSE /\ FreeDocIds # {}
                /\ Fault(storeOk)
                /\ IF storeOk
                   THEN /\ documents' = [documents EXCEPT ![NewDocId] =
                                            NewDocument(u.tenantId, content)]
                        /\ uploads' = [uploads EXCEPT ![r] =
                              [u EXCEPT !.docId = NewDocId, !.pc = "increment"]]
                   ELSE /\ uploads' = [uploads EXCEPT ![r] = NextFile(u)]
                        /\ UNCHANGED documents
    /\ UNCHANGED <<embeddingsDb, tenants, job, deletes, chats, statusResp,
                   searchResult, chatReply, chunkerCall, answerCall, sockets,
                   providerFlaky>>

\* await tenant.incrementDocumentCount(); processDocumentAsync(...) is started
Upload_increment(r, storeOk) ==
    /\ uploads[r].pc = "increment"
    /\ Fault(storeOk)
    /\ LET u == [uploads[r] EXCEPT !.currentDocuments = @ + 1]
       IN  /\ uploads' = [uploads EXCEPT ![r] = NextFile(u)]
           /\ IF storeOk
              THEN /\ tenants' = [tenants EXCEPT ![u.tenantId] =
                          [@ EXCEPT !.currentDocuments =
                                        StoreCounter(@, u.currentDocuments),
                                    !.docIncs = @ + 1]]
                   /\ job' = [job EXCEPT ![u.docId] =
                         [NoJob EXCEPT !.pc = "findById", !.starts = job[u.docId].starts + 1]]
              ELSE UNCHANGED <<tenants, job>>
    /\ UNCHANGED <<documents, embeddingsDb, deletes, chats, statusResp,
                   searchResult, chatReply, chunkerCall, answerCall, sockets,
                   providerFlaky>>

(***************************************************************************)
(* The earlier copy of the admin controller: uploadDocuments starts the    *)
(* run right after document.save(); its processDocumentAsync embeds the    *)
(* chunks one by one, without retries, and marks the document completed    *)
(* after the loop.                                                         *)
(***************************************************************************)
\* await document.save(); processDocumentAsync(document._id, tenant._id)
Earlier_saveDocument(r, storeOk) ==
    /\ uploads[r].pc = "saveDocument"
    /\ LET u == uploads[r]
           file == Head(u.files)
           content == parseFileContent(file)
       IN  IF ParseFails(file) \/ ~DocumentValid(content)
           THEN /\ storeOk
                /\ uploads' = [uploads EXCEPT ![r] = NextFile(u)]
                /\ UNCHANGED <<documents, job, faultsLeft>>
           ELSE /\ FreeDocIds # {}
                /\ Fault(storeOk)
                /\ uploads' = [uploads EXCEPT ![r] = NextFile(u)]
                /\ IF storeOk
                   THEN /\ documents' = [documents EXCEPT ![NewDocId] =
                                            NewDocument(u.tenantId, content)]
                        /\ job' = [job EXCEPT ![NewDocId] =
                              [NoJob EXCEPT !.pc = "findById",
                                            !.starts = job[NewDocId].starts + 1]]
                   ELSE UNCHANGED <<documents, job>>
    /\ UNCHANGED <<embeddingsDb, tenants, deletes, chats, statusResp,
                   searchResult, chatReply, chunkerCall, answerCall, sockets,
                   providerFlaky>>

\* The outer catch: the document is fetched again before it is marked failed.
EarlierCatch(j) == [j EXCEPT !.pc = "catchFind"]

\* End of one iteration of the chunk loop; after the last one: completed.
EarlierNextChunk(d, j) ==
    IF j.i + 1 < Len(Chunks(d))
    THEN [j EXCEPT !.i = @ + 1, !.pc = "chunkEmbed"]
    ELSE [j EXCEPT !.doc = [@ EXCEPT !.processingStatus = "completed"],
                   !.dirty = @ \cup {"processingStatus"},
                   !.pc = "saveCompleted"]

\* document = await Document.findById(documentId); status := processing
Earlier_findById(d, storeOk) ==
    /\ job[d].pc = "findById"
    /\ Fault(storeOk)
    /\ job' = [job EXCEPT ![d] =
          IF storeOk
          THEN [@ EXCEPT !.loaded = TRUE,
                         !.doc = [processingStatus |-> "processing",
                                  processingError |-> documents[d].processingError,
                                  chunkCount |-> documents[d].chunkCount,
                                  embeddingCount |-> documents[d].embeddingCount],
                         !.dirty = {"processingStatus"},
                         !.pc = "saveProcessing"]
          ELSE EarlierCatch(@)]
    /\ UNCHANGED <<documents, embeddingsDb, Others>>

\* await document.save() of status processing; chunkCount = chunks.length
Earlier_saveProcessing(d, storeOk) ==
    /\ job[d].pc = "saveProcessing"
    /\ Fault(storeOk)
    /\ IF storeOk
       THEN /\ documents' = [documents EXCEPT ![d] =
                                ApplySave(@, job[d].doc, job[d].dirty)]
            /\ job' = [job EXCEPT ![d] =
                  [@ EXCEPT !.doc = [@ EXCEPT !.chunkCount = Len(Chunks(d))],
                            !.dirty = {"chunkCount"},
                            !.pc = "saveChunkCount"]]
       ELSE /\ job' = [job EXCEPT ![d] = EarlierCatch(@)]
            /\ UNCHANGED documents
    /\ UNCHANGED <<embeddingsDb, Others>>

\* await document.save() of chunkCount
Earlier_saveChunkCount(d, storeOk) ==
    /\ job[d].pc = "saveChunkCount"
    /\ Fault(storeOk)
    /\ IF storeOk
       THEN /\ documents' = [documents EXCEPT ![d] =
                                ApplySave(@, job[d].doc, job[d].dirty)]
            /\ job' = [job EXCEPT ![d] =
                  IF Len(Chunks(d)) = 0
                  THEN EarlierNextChunk(d, [@ EXCEPT !.dirty = {}])
                  ELSE [@ EXCEPT !.dirty = {}, !.i = 0, !.pc = "chunkEmbed"]]
       ELSE /\ job' = [job EXCEPT ![d] = EarlierCatch(@)]
            /\ UNCHANGED documents
    /\ UNCHANGED <<embeddingsDb, Others>>

\* embedding = await generateEmbeddings(chunks[i]); a throw skips the chunk
Earlier_chunkEmbed(d, provOk) ==
    /\ job[d].pc = "chunkEmbed"
    /\ ProviderMay(provOk)
    /\ LET j == job[d]
           ok == provOk /\ ~IsBlank(Chunks(d)[j.i + 1])
       IN  job' = [job EXCEPT ![d] =
              IF ok THEN [j EXCEPT !.embedded = @ \cup {j.i}, !.pc = "chunkSave"]
              ELSE EarlierNextChunk(d, j)]
    /\ UNCHANGED <<documents, embeddingsDb, faultsLeft, Others>>

\* await embeddingDoc.save(); processedChunks++
Earlier_chunkSave(d, storeOk) ==
    /\ job[d].pc = "chunkSave"
    /\ Fault(storeOk)
    /\ LET j == job[d]
           chunk == Chunks(d)[j.i + 1]
           e == [tenantId |-> documents[d].tenantId, documentId |-> d,
                 text |-> chunk, embedding |-> ProviderVector(chunk),
                 chunkIndex |-> j.i, category |-> "none", isActive |-> TRUE]
       IN  IF storeOk
           THEN /\ embeddingsDb' = Append(embeddingsDb, e)
                /\ job' = [job EXCEPT ![d] =
                      [j EXCEPT !.processedChunks = @ + 1,
                                !.doc = [@ EXCEPT !.embeddingCount = j.processedChunks + 1],
                                !.dirty = @ \cup {"embeddingCount"},
                                !.pc = "saveChunkProgress"]]
           ELSE /\ job' = [job EXCEPT ![d] = EarlierNextChunk(d, j)]
                /\ UNCHANGED embeddingsDb
    /\ UNCHANGED <<documents, Others>>

\* await document.save() of embeddingCount
Earlier_saveChunkProgress(d, storeOk) ==
    /\ job[d].pc = "saveChunkProgress"
    /\ Fault(storeOk)
    /\ IF storeOk
       THEN /\ documents' = [documents EXCEPT ![d] =
                                ApplySave(@, job[d].doc, job[d].dirty)]
            /\ job' = [job EXCEPT ![d] = EarlierNextChunk(d, [@ EXCEPT !.dirty = {}])]
       ELSE /\ job' = [job EXCEPT ![d] = EarlierNextChunk(d, @)]
            /\ UNCHANGED documents
    /\ UNCHANGED <<embeddingsDb, Others>>

\* await document.save() of status completed
Earlier_saveCompleted(d, storeOk) ==
    /\ job[d].pc = "saveCompleted"
    /\ Fault(storeOk)
    /\ IF storeOk
       THEN /\ documents' = [documents EXCEPT ![d] =
                                ApplySave(@, job[d].doc, job[d].dirty)]
            /\ job' = [job EXCEPT ![d] =
                  [@ EXCEPT !.dirty = {}, !.pc = "done", !.result = "resolved"]]
       ELSE /\ job' = [job EXCEPT ![d] = EarlierCatch(@)]
            /\ UNCHANGED documents
    /\ UNCHANGED <<embeddingsDb, Others>>

\* catch: const document = await Document.findById(documentId); status := failed
Earlier_catchFind(d, storeOk) ==
    /\ job[d].pc = "catchFind"
    /\ Fault(storeOk)
    /\ job' = [job EXCEPT ![d] =
          IF storeOk
          THEN [@ EXCEPT !.doc = [processingStatus |-> "failed",
                                  processingError |-> StoreError,
                                  chunkCount |-> documents[d].chunkCount,
                                  embeddingCount |-> documents[d].embeddingCount],
                         !.dirty = {"processingStatus", "processingError"},
                         !.pc = "saveFailed"]
          ELSE [@ EXCEPT !.pc = "done", !.result = "rejected"]]
    /\ UNCHANGED <<documents, embeddingsDb, Others>>

\* catch: await document.save() of status failed and the message
Earlier_saveFailed(d, storeOk) ==
    /\ job[d].pc = "saveFailed"
    /\ Fault(storeOk)
    /\ IF storeOk
       THEN documents' = [documents EXCEPT ![d] =
                             ApplySave(@, job[d].doc, job[d].dirty)]
       ELSE UNCHANGED documents
    /\ job' = [job EXCEPT ![d] =
          [@ EXCEPT !.pc = "done",
                    !.result = IF storeOk THEN "resolved" ELSE "rejected"]]
    /\ UNCHANGED <<embeddingsDb, Others>>

\* One step of the earlier copy's run of document d.
processDocumentAsyncEarlier(d, S, P) ==
    \/ \E storeOk \in S : Earlier_findById(d, storeOk)
    \/ \E storeOk \in S : Earlier_saveProcessing(d, storeOk)
    \/ \E storeOk \in S : Earlier_saveChunkCount(d, storeOk)
    \/ \E provOk \in P : Earlier_chunkEmbed(d, provOk)
    \/ \E storeOk \in S : Earlier_chunkSave(d, storeOk)
    \/ \E storeOk \in S : Earlier_saveChunkProgress(d, storeOk)
    \/ \E storeOk \in S : Earlier_saveCompleted(d, storeOk)
    \/ \E storeOk \in S : Earlier_catchFind(d, storeOk)
    \/ \E storeOk \in S : Earlier_saveFailed(d, storeOk)

(***************************************************************************)
(* deleteDocument: one request q for document d.                           *)
(***************************************************************************)
NoDelete == [pc |-> "idle", docId |-> 0, currentDocuments |-> 0]

\* Document.findOne({ _id, tenantId }); 404 when there is none
Delete_start(q, d) ==
    /\ deletes[q].pc = "idle"
    /\ deletes' = [deletes EXCEPT ![q] =
          IF documents[d].exists
          THEN [@ EXCEPT !.pc = "saveInactive", !.docId = d]
          ELSE [@ EXCEPT !.pc = "done"]]
    /\ UNCHANGED <<documents, embeddingsDb, tenants, job, uploads, chats,
                   statusResp, searchResult, chatReply, chunkerCall, answerCall, sockets, faultsLeft, providerFlaky>>

\* document.isActive = false; await document.save()
Delete_saveInactive(q, storeOk) ==
    /\ deletes[q].pc = "saveInactive"
    /\ Fault(storeOk)
    /\ IF storeOk
       THEN /\ documents' = [documents EXCEPT ![deletes[q].docId] =
                                [@ EXCEPT !.isActive = FALSE]]
            /\ deletes' = [deletes EXCEPT ![q] = [@ EXCEPT !.pc = "tenantFind"]]
       ELSE /\ deletes' = [deletes EXCEPT ![q] = [@ EXCEPT !.pc = "done"]]
            /\ UNCHANGED documents
    /\ UNCHANGED <<embeddingsDb, tenants, job, uploads, chats, statusResp,
                   searchResult, chatReply, chunkerCall, answerCall, sockets,
                   providerFlaky>>

\* const tenant = await Tenant.findById(document.tenantId)
Delete_tenantFind(q) ==
    /\ deletes[q].pc = "tenantFind"
    /\ deletes' = [deletes EXCEPT ![q] =
          [@ EXCEPT !.currentDocuments =
                        tenants[documents[deletes[q].docId].tenantId].currentDocuments,
                    !.pc = "decrement"]]
    /\ UNCHANGED <<documents, embeddingsDb, tenants, job, uploads, chats,
                   statusResp, searchResult, chatReply, chunkerCall, answerCall, sockets, faultsLeft, providerFlaky>>

\* await tenant.decrementDocumentCount()
Delete_decrement(q, storeOk) ==
    /\ deletes[q].pc = "decrement"
    /\ Fault(storeOk)
    /\ LET t == documents[deletes[q].docId].tenantId
           cur == deletes[q].currentDocuments
       IN  IF storeOk
           THEN /\ tenants' = [tenants EXCEPT ![t] =
                      IF cur > 0
                      THEN [@ EXCEPT !.currentDocuments = StoreCounter(@, cur - 1),
                                     !.docDecs = @ + 1]
                      ELSE @]
                /\ deletes' = [deletes EXCEPT ![q] = [@ EXCEPT !.pc = "updateMany"]]
           ELSE /\ deletes' = [deletes EXCEPT ![q] = [@ EXCEPT !.pc = "done"]]
                /\ UNCHANGED tenants
    /\ UNCHANGED <<documents, embeddingsDb, job, uploads, chats, statusResp,
                   searchResult, chatReply, chunkerCall, answerCall, sockets,
                   providerFlaky>>

\* await Embedding.updateMany({ documentId }, { isActive: false })
Delete_updateMany(q, storeOk) ==
    /\ deletes[q].pc = "updateMany"
    /\ Fault(storeOk)
    /\ IF storeOk
       THEN embeddingsDb' =
               [x \in 1..Len(embeddingsDb) |->
                   IF embeddingsDb[x].documentId = deletes[q].docId
                   THEN [embeddingsDb[x] EXCEPT !.isActive = FALSE]
                   ELSE embeddingsDb[x]]
       ELSE UNCHANGED embeddingsDb
    /\ deletes' = [deletes EXCEPT ![q] = [@ EXCEPT !.pc = "done"]]
    /\ UNCHANGED <<documents, tenants, job, uploads, chats, statusResp,
                   searchResult, chatReply, chunkerCall, answerCall, sockets,
                   providerFlaky>>

(***************************************************************************)
(* getUploadStatus: the response built from one read of the document.      *)
(***************************************************************************)
NoStatus ==
    [seen |-> FALSE, status |-> "pending", progress |-> 0, chunkCount |-> 0,
     embeddingCount |-> 0, error |-> ""]

\* Math.round((embeddingCount / chunkCount) * 100), 0 when chunkCount is 0
getProcessingProgress(doc) ==
    IF doc.chunkCount = 0 THEN 0
    ELSE (200 * doc.embeddingCount + doc.chunkCount) \div (2 * doc.chunkCount)

getUploadStatus(d) ==
    /\ documents[d].exists
    /\ statusResp' = [statusResp EXCEPT ![d] =
          [seen |-> TRUE, status |-> documents[d].processingStatus,
           progress |-> getProcessingProgress(documents[d]),
           chunkCount |-> documents[d].chunkCount,
           embeddingCount |-> documents[d].embeddingCount,
           error |-> documents[d].processingError]]
    /\ UNCHANGED <<documents, embeddingsDb, tenants, job, uploads, deletes,
                   chats, searchResult, chatReply, chunkerCall, answerCall, sockets, faultsLeft, providerFlaky>>

(***************************************************************************)
(* Similarity search (embeddingService.cosineSimilarity,                   *)
(* similarityService.findSimilarDocuments).  A similarity is the exact     *)
(* value num / sqrt(den2), kept as the pair; 0 is <<0, 1>>.                *)
(***************************************************************************)
\* validateEmbedding: an array of the model's dimension (all numbers).
validateEmbedding(v) == Len(v) = Dim

RECURSIVE Dot(_, _)
Dot(a, b) == IF a = <<>> THEN 0 ELSE Head(a) * Head(b) + Dot(Tail(a), Tail(b))

Zero == [num |-> 0, den2 |-> 1]

\* cosineSimilarity throws "Invalid embeddings provided" on an invalid vector
cosineThrows(a, b) == ~validateEmbedding(a) \/ ~validateEmbedding(b)

\* cosineSimilarity(embedding1, embedding2) of two valid vectors
cosineSimilarity(a, b) ==
    IF Dot(a, a) = 0 \/ Dot(b, b) = 0 THEN Zero
    ELSE [num |-> Dot(a, b), den2 |-> Dot(a, a) * Dot(b, b)]

\* sign(num) * num^2: with den2 it orders similarities as the reals do.
Key(s) == IF s.num >= 0 THEN s.num * s.num ELSE 0 - (s.num * s.num)
SimGE(s, r) == Key(s) * r.den2 >= Key(r) * s.den2
\* s >= tenths / 10
SimAtLeast(s, tenths) == SimGE(s, [num |-> tenths, den2 |-> 100])

\* Variant of ScanFilter: the filter without isActive: true.
ScanFilterAnyActivity(e, tenantId, options) ==
    /\ e.tenantId = tenantId
    /\ (options.category # "null" => e.category = options.category)
    /\ (options.excludeDocumentIds # {} =>
            e.documentId \notin options.excludeDocumentIds)

\* The MongoDB filter of the scan: tenant, active, category, excluded documents.
ScanFilter(e, tenantId, options) ==
    /\ e.tenantId = tenantId
    /\ e.isActive = TRUE
    /\ (options.category # "null" => e.category = options.category)
    /\ (options.excludeDocumentIds # {} =>
            e.documentId \notin options.excludeDocumentIds)

\* similarities.map(...): a throwing cosineSimilarity is caught and gives 0.
ScoreOf(queryEmbedding, e) ==
    [embedding |-> e,
     similarity |-> IF cosineThrows(queryEmbedding, e.embedding) THEN Zero
                    ELSE cosineSimilarity(queryEmbedding, e.embedding)]

\* Array.prototype.sort((a, b) => b.similarity - a.similarity): stable.
RECURSIVE InsertDesc(_, _)
InsertDesc(sorted, m) ==
    IF sorted = <<>> THEN <<m>>
    ELSE IF SimGE(Head(sorted).similarity, m.similarity)
         THEN <<Head(sorted)>> \o InsertDesc(Tail(sorted), m)
         ELSE <<m>> \o sorted
\* Variant of SortDesc: the matches are left in scan order.
SortNone(ms) == ms

RECURSIVE SortDesc(_)
SortDesc(ms) ==
    IF ms = <<>> THEN <<>>
    ELSE InsertDesc(SortDesc(SubSeq(ms, 1, Len(ms) - 1)), ms[Len(ms)])

\* Variant of findSimilarDocuments: the candidates are cut to limit before they
\* are filtered and ranked.
findSimilarTruncatedFirst(store, tenantId, queryEmbedding, options) ==
    LET embeddings == SelectSeq(store, LAMBDA e : ScanFilter(e, tenantId, options))
        cut == SubSeq(embeddings, 1, Min(options.limit, Len(embeddings)))
        similarities == [x \in 1..Len(cut) |-> ScoreOf(queryEmbedding, cut[x])]
        filteredResults == SelectSeq(similarities,
            LAMBDA m : SimAtLeast(m.similarity, options.minSimilarity))
    IN  SortDesc(filteredResults)

findSimilarDocuments(store, tenantId, queryEmbedding, options) ==
    LET embeddings == SelectSeq(store, LAMBDA e : ScanFilter(e, tenantId, options))
        similarities == [x \in 1..Len(embeddings) |->
                            ScoreOf(queryEmbedding, embeddings[x])]
        filteredResults == SelectSeq(similarities,
            LAMBDA m : SimAtLeast(m.similarity, options.minSimilarity))
        sorted == SortDesc(filteredResults)
    IN  SubSeq(sorted, 1, Min(options.limit, Len(sorted)))

NoSearch ==
    [tenantId |-> 0, query |-> <<>>, options |-> <<>>, scanned |-> <<>>,
     results |-> <<>>]

\* One call of findSimilarDocuments on the store as it is now.
Search(t, q, options) ==
    /\ searchResult' = [tenantId |-> t, query |-> q, options |-> options,
                        scanned |-> embeddingsDb,
                        results |-> findSimilarDocuments(embeddingsDb, t, q, options)]
    /\ UNCHANGED <<documents, embeddingsDb, tenants, job, uploads, deletes,
                   chats, statusResp, chatReply, chunkerCall, answerCall, sockets, faultsLeft, providerFlaky>>

\* handleChatQuery's options: { limit: 5, minSimilarity: 0.1 }
ChatOptions ==
    [limit |-> 5, minSimilarity |-> 1, category |-> "null", excludeDocumentIds |-> {}]

(***************************************************************************)
(* The grounding step: chatService.pdf.js and defaultAnswers.js.           *)
(* A text is a string, and toLowerCase, includes, split, trim and the      *)
(* regular-expression replacements are computed on its characters as       *)
(* JavaScript computes them.                                               *)
(***************************************************************************)
UpperCase == "ABCDEFGHIJKLMNOPQRSTUVWXYZ"
LowerCase == "abcdefghijklmnopqrstuvwxyz"
DigitChars == {"0", "1", "2", "3", "4", "5", "6", "7", "8", "9"}

\* the character of s at position k
charAt(s, k) == SubSeq(s, k, k)

\* String.prototype.toLowerCase, half by half
RECURSIVE toLowerCase(_)
toLowerCase(s) ==
    IF Len(s) = 0 THEN ""
    ELSE IF Len(s) = 1
    THEN IF \E a \in 1..Len(UpperCase) : charAt(UpperCase, a) = s
         THEN charAt(LowerCase, CHOOSE a \in 1..Len(UpperCase) : charAt(UpperCase, a) = s)
         ELSE s
    ELSE toLowerCase(SubSeq(s, 1, Len(s) \div 2))
         \o toLowerCase(SubSeq(s, Len(s) \div 2 + 1, Len(s)))

\* sub occurs in s at position k
startsAt(s, sub, k) ==
    /\ k + Len(sub) - 1 <= Len(s)
    /\ SubSeq(s, k, k + Len(sub) - 1) = sub
\* String.prototype.includes / startsWith / endsWith
includes(s, sub) == \E k \in 1..(Len(s) - Len(sub) + 1) : startsAt(s, sub, k)
startsWith(s, sub) == startsAt(s, sub, 1)
endsWith(s, sub) == Len(s) >= Len(sub) /\ startsAt(s, sub, Len(s) - Len(sub) + 1)
includesAny(s, subs) == \E sub \in subs : includes(s, sub)

\* the classes \s and \w of the regular expressions
IsSpaceChar(c) == c \in {" ", "\n", "\t"}
IsWordChar(c) ==
    \/ \E a \in 1..Len(UpperCase) : c = charAt(UpperCase, a) \/ c = charAt(LowerCase, a)
    \/ c \in DigitChars
    \/ c = "_"

\* String.prototype.trim
RECURSIVE trimStart(_)
trimStart(s) ==
    IF Len(s) > 0 /\ IsSpaceChar(charAt(s, 1)) THEN trimStart(SubSeq(s, 2, Len(s))) ELSE s
RECURSIVE trimEnd(_)
trimEnd(s) ==
    IF Len(s) > 0 /\ IsSpaceChar(charAt(s, Len(s)))
    THEN trimEnd(SubSeq(s, 1, Len(s) - 1)) ELSE s
trimText(s) == trimEnd(trimStart(s))

\* String.prototype.split on the characters of seps; with runs, a run of
\* separators is one separator (the patterns /\s+/ and /[.!?]+/).  The
\* pieces lie between the end of one separator and the start of the next.
split(s, seps, runs) ==
    LET sepAt(k) == k >= 1 /\ k <= Len(s) /\ charAt(s, k) \in seps
        starts == {k \in 1..Len(s) : sepAt(k) /\ (runs => ~sepAt(k - 1))}
        ends == {k \in 1..Len(s) : sepAt(k) /\ (runs => ~sepAt(k + 1))}
        nth(set, n) == CHOOSE p \in set : Cardinality({q \in set : q < p}) = n - 1
        from(n) == IF n = 1 THEN 1 ELSE nth(ends, n - 1) + 1
        to(n) == IF n = Cardinality(starts) + 1 THEN Len(s) ELSE nth(starts, n) - 1
    IN  [n \in 1..(Cardinality(starts) + 1) |-> SubSeq(s, from(n), to(n))]

\* Array.prototype.join
RECURSIVE join(_, _)
join(parts, sep) ==
    IF parts = <<>> THEN ""
    ELSE IF Len(parts) = 1 THEN parts[1]
    ELSE parts[1] \o sep \o join(Tail(parts), sep)

\* Array.prototype.slice(0, n)
slice(xs, n) == SubSeq(xs, 1, Min(n, Len(xs)))

\* defaultAnswers.js: the canned answers
defaultAnswers ==
    [notFound |-> "Sorry, I don't have that information in the uploaded documents. Please contact our support team for assistance.",
     greeting |-> "Hello! How can I help you today?",
     help |-> "I'm here to help! You can ask me about our products, services, or any other information you need.",
     contact |-> "For direct contact with our team, you can reach out through our support channels.",
     pricing |-> "I don't have specific pricing information in the uploaded documents. Please contact our sales team for a personalized quote.",
     technical |-> "I don't have specific technical information about that. Our technical support team would be happy to assist you.",
     account |-> "I don't have specific account information in the uploaded documents. Please contact our support team for account assistance.",
     thanks |-> "You're very welcome! I'm glad I could help. Is there anything else you'd like to know?",
     goodbye |-> "Goodbye! It was great helping you today. Feel free to come back anytime if you have more questions.",
     fallback |-> "I don't have specific information about that. Please contact support for more details."]

\* Variant of getDefaultAnswer: every message type gets the not-found answer.
getDefaultAnswerNotFoundOnly(messageType) == defaultAnswers.notFound

\* getDefaultAnswer(messageType): defaultAnswers[messageType] || notFound
getDefaultAnswer(messageType) ==
    IF messageType \in DOMAIN defaultAnswers THEN defaultAnswers[messageType]
    ELSE defaultAnswers.notFound

\* detectMessageType(userMessage): the first group of keywords that matches
detectMessageType(userMessage) ==
    LET message == toLowerCase(userMessage)
    IN  IF \/ includes(message, "hello")
           \/ message = "hi"
           \/ startsWith(message, "hi ")
           \/ message = "hey"
           \/ startsWith(message, "hey ")
           \/ includesAny(message, {"good morning", "good afternoon", "good evening"})
        THEN "greeting"
        ELSE IF includesAny(message, {"help", "support", "assistance"})
        THEN "help"
        ELSE IF includesAny(message, {"contact", "phone", "email", "reach", "speak to"})
        THEN "contact"
        ELSE IF includesAny(message, {"price", "cost", "fee", "how much", "pricing"})
        THEN "pricing"
        ELSE IF includesAny(message,
                    {"technical", "troubleshoot", "problem", "issue", "error"})
        THEN "technical"
        ELSE IF includesAny(message,
                    {"account", "login", "password", "sign in", "register"})
        THEN "account"
        ELSE IF includesAny(message, {"thank", "thanks", "appreciate"})
        THEN "thanks"
        ELSE IF includesAny(message, {"bye", "goodbye", "see you", "farewell"})
        THEN "goodbye"
        ELSE "notFound"

\* the words of the message that count: punctuation removed, longer than two
\* characters, no common word
StopWords ==
    {"the", "and", "or", "but", "for", "with", "this", "that", "what", "how",
     "is", "are", "was", "were", "your", "our"}
\* s.replace(/[^\w\s]/g, " "), half by half
RECURSIVE removePunctuation(_)
removePunctuation(s) ==
    IF Len(s) = 0 THEN ""
    ELSE IF Len(s) = 1 THEN IF IsWordChar(s) \/ IsSpaceChar(s) THEN s ELSE " "
    ELSE removePunctuation(SubSeq(s, 1, Len(s) \div 2))
         \o removePunctuation(SubSeq(s, Len(s) \div 2 + 1, Len(s)))
userWords(userMessageLower) ==
    SelectSeq(split(removePunctuation(userMessageLower), {" ", "\n", "\t"}, TRUE),
              LAMBDA word : Len(word) > 2 /\ word \notin StopWords)

synonymGroups ==
    << {"product", "solution", "platform", "service", "tool", "system", "offers"},
       {"price", "cost", "billing", "payment", "plan", "subscription"},
       {"feature", "capability", "function", "functionality", "includes"},
       {"contact", "support", "email", "phone", "reach"},
       {"help", "assistance", "guide", "how to"} >>

\* lineLower.match(/^\d+\./): digits and a dot at the start of the line
startsWithNumberDot(s) ==
    \E n \in 1..(Len(s) - 1) :
        /\ \A k \in 1..n : charAt(s, k) \in DigitChars
        /\ charAt(s, n + 1) = "."
\* lower.match(/\d+\./): a digit followed by a dot anywhere
hasNumberDot(s) ==
    \E k \in 1..(Len(s) - 1) : charAt(s, k) \in DigitChars /\ charAt(s, k + 1) = "."

\* the message asks about the product, the service or the company
asksOverview(userMessageLower) ==
    includesAny(userMessageLower,
        {"product", "service", "company", "solution", "what is", "tell me about",
         "about your"})

\* scoredLines: the relevance score of one line of the context
lineScore(userMessageLower, line) ==
    LET lineLower == toLowerCase(line)
        words == userWords(userMessageLower)
    IN  3 * Cardinality({k \in 1..Len(words) : includes(lineLower, words[k])})
        + 5 * Cardinality({g \in 1..Len(synonymGroups) :
                  /\ includesAny(userMessageLower, synonymGroups[g])
                  /\ includesAny(lineLower, synonymGroups[g])})
        + (IF /\ asksOverview(userMessageLower)
              /\ includesAny(lineLower,
                    {"comprehensive", "offers", "platform includes",
                     "our company offers", "ai-powered", "solution"})
           THEN 15 ELSE 0)
        - (IF /\ asksOverview(userMessageLower)
              /\ \/ includesAny(lineLower,
                       {"step", "follow these", "common issues",
                        "for technical support", "contact support",
                        "check our documentation"})
                 \/ startsWithNumberDot(lineLower)
           THEN 15 ELSE 0)
        + (IF /\ includesAny(userMessageLower, {"support", "help", "contact"})
              /\ includesAny(lineLower, {"support team", "contact", "email", "available"})
           THEN 10 ELSE 0)
        + (IF /\ includesAny(userMessageLower, {"price", "cost", "plan"})
              /\ includesAny(lineLower, {"$", "pricing"})
           THEN 10 ELSE 0)
        + (IF /\ includesAny(userMessageLower, {"feature", "capability"})
              /\ includesAny(lineLower, {"feature", "key", "-"})
           THEN 10 ELSE 0)

\* Array.prototype.sort((a, b) => b.score - a.score): stable
RECURSIVE insertByScore(_, _)
insertByScore(sorted, item) ==
    IF sorted = <<>> THEN <<item>>
    ELSE IF Head(sorted).score >= item.score
         THEN <<Head(sorted)>> \o insertByScore(Tail(sorted), item)
         ELSE <<item>> \o sorted
RECURSIVE sortByScore(_)
sortByScore(items) ==
    IF items = <<>> THEN <<>>
    ELSE insertByScore(sortByScore(SubSeq(items, 1, Len(items) - 1)), items[Len(items)])

\* the lines of the context with a positive score, best first
relevantLinesOf(userMessageLower, context) ==
    LET contextLines == SelectSeq(split(context, {"\n"}, FALSE),
                                  LAMBDA line : Len(trimText(line)) > 0)
        scoredLines == [k \in 1..Len(contextLines) |->
                           [line |-> contextLines[k],
                            score |-> lineScore(userMessageLower, contextLines[k])]]
        sorted == sortByScore(SelectSeq(scoredLines, LAMBDA item : item.score > 0))
    IN  [k \in 1..Len(sorted) |-> sorted[k].line]

\* s.replace(/^(Source|Document|File|From):\s*/i, "")
removeLabel(s) ==
    LET lower == toLowerCase(s)
        labels == {"source:", "document:", "file:", "from:"}
    IN  IF \E l \in labels : startsWith(lower, l)
        THEN LET l == CHOOSE x \in labels : startsWith(lower, x)
             IN  trimStart(SubSeq(s, Len(l) + 1, Len(s)))
        ELSE s

\* s.replace(/<open>.*?<close>/g, ""): the leftmost opening that is closed
\* later is removed up to its first closing, and so on in the rest; open is
\* lower case and matched without regard to case
RECURSIVE removeSpans(_, _, _)
removeSpans(s, open, close) ==
    LET lower == toLowerCase(s)
        closings(k) == {e \in (k + Len(open))..Len(s) : startsAt(s, close, e)}
        openings == {k \in 1..Len(s) : startsAt(lower, open, k) /\ closings(k) # {}}
    IN  IF openings = {} THEN s
        ELSE LET k == CHOOSE x \in openings : \A y \in openings : x <= y
                 e == CHOOSE x \in closings(k) : \A y \in closings(k) : x <= y
             IN  SubSeq(s, 1, k - 1)
                 \o removeSpans(SubSeq(s, e + Len(close), Len(s)), open, close)

\* s.replace(/<open>.*?(?=\.|$)/gi, ""): from each opening up to the next dot,
\* or to the end of the text
RECURSIVE removeUntilDot(_, _)
removeUntilDot(s, open) ==
    LET lower == toLowerCase(s)
        openings == {k \in 1..Len(s) : startsAt(lower, open, k)}
    IN  IF openings = {} THEN s
        ELSE LET k == CHOOSE x \in openings : \A y \in openings : x <= y
                 dots == {e \in (k + Len(open))..Len(s) : charAt(s, e) = "."}
                 e == IF dots = {} THEN Len(s) + 1
                      ELSE CHOOSE x \in dots : \A y \in dots : x <= y
             IN  SubSeq(s, 1, k - 1) \o removeUntilDot(SubSeq(s, e, Len(s)), open)

\* the four replacements and the trim applied to an extracted sentence
cleanReferences(s) ==
    trimText(removeSpans(removeSpans(removeSpans(removeLabel(s), "[", "]"),
                                     "(source:", ")"),
                         "{", "}"))

\* the sentences of a line that are longer than ten characters
sentencesOf(line) ==
    SelectSeq(split(line, {".", "!", "?"}, TRUE), LAMBDA s : Len(trimText(s)) > 10)

\* cleanSentence + (cleanSentence.endsWith(".") ? "" : ".")
withDot(cleanSentence) ==
    IF endsWith(cleanSentence, ".") THEN cleanSentence ELSE cleanSentence \o "."

\* The answer extracted from the relevant lines, by the kind of question.
\* threw: sentences[0] is undefined when the chosen line has no sentence
\* longer than ten characters, and .trim() of it throws.
extractAnswer(userMessageLower, relevantLines) ==
    IF includesAny(userMessageLower,
          {"what is", "what does", "explain", "product", "service", "company",
           "solution"})
    THEN LET described == SelectSeq(relevantLines, LAMBDA line :
                 includesAny(toLowerCase(line),
                     {"comprehensive", "platform", "solution", "offers", "includes"}))
             chosen == IF described # <<>> THEN described[1]
                       ELSE trimText(relevantLines[1])
             sentences == sentencesOf(chosen)
         IN  IF sentences = <<>> THEN [threw |-> TRUE, text |-> ""]
             ELSE [threw |-> FALSE,
                   text |-> withDot(cleanReferences(trimText(sentences[1])))]
    ELSE IF includesAny(userMessageLower, {"how to", "how do", "steps", "use", "usage"})
    THEN LET stepLines == SelectSeq(relevantLines, LAMBDA line :
                 \/ hasNumberDot(toLowerCase(line))
                 \/ includesAny(toLowerCase(line), {"step", "first", "follow"}))
         IN  [threw |-> FALSE,
              text |-> IF stepLines # <<>> THEN join(slice(stepLines, 4), " ")
                       ELSE join(slice(relevantLines, 2), " ")]
    ELSE IF includesAny(userMessageLower, {"price", "cost", "fee", "plan", "billing"})
    THEN LET pricingLines == SelectSeq(relevantLines, LAMBDA line :
                 includesAny(toLowerCase(line),
                     {"$", "pricing", "month", "plan", "cost"}))
         IN  [threw |-> FALSE,
              text |-> IF pricingLines # <<>> THEN join(slice(pricingLines, 2), " ")
                       ELSE trimText(relevantLines[1])]
    ELSE IF includesAny(userMessageLower,
                {"feature", "capability", "function", "key features"})
    THEN LET featureLines == SelectSeq(relevantLines, LAMBDA line :
                 includesAny(toLowerCase(line), {"feature", "-", "includes", "key"}))
         IN  [threw |-> FALSE,
              text |-> IF featureLines # <<>> THEN join(slice(featureLines, 5), " ")
                       ELSE join(slice(relevantLines, 2), " ")]
    ELSE IF includesAny(userMessageLower, {"contact", "support", "help", "email"})
    THEN LET contactLines == SelectSeq(relevantLines, LAMBDA line :
                 includesAny(toLowerCase(line),
                     {"@", "email", "contact", "support", "available"}))
         IN  [threw |-> FALSE,
              text |-> IF contactLines # <<>> THEN join(slice(contactLines, 2), " ")
                       ELSE trimText(relevantLines[1])]
    ELSE LET firstLine == trimText(relevantLines[1])
             sentences == sentencesOf(firstLine)
         IN  [threw |-> FALSE,
              text |-> IF sentences # <<>>
                       THEN withDot(cleanReferences(trimText(sentences[1])))
                       ELSE firstLine]

\* the final cleaning pass over the extracted answer
finalClean(pdfResponse) ==
    trimText(removeUntilDot(removeUntilDot(
        removeSpans(removeSpans(removeSpans(removeLabel(pdfResponse), "[", "]"),
                                "(source:", ")"),
                    "{", "}"),
        "document id:"), "file:"))

\* Variant of PureConversational: a goodbye is treated as a content question.
PureConversationalNoGoodbye == {"greeting", "thanks"}

\* the message types answered from the canned answers when there is no context
PureConversational == {"greeting", "thanks", "goodbye"}

\* what generateChatResponse resolves to, or that it rejects; confidence in
\* tenths
Reply(message, confidence, source, messageType) ==
    [threw |-> FALSE, message |-> message, confidence |-> confidence,
     source |-> source, messageType |-> messageType]
Rejected ==
    [threw |-> TRUE, message |-> "", confidence |-> 0, source |-> "none",
     messageType |-> "none"]

\* generateChatResponse(userMessage, context)
generateChatResponse(userMessage, context) ==
    LET userMessageLower == toLowerCase(userMessage)
        messageType == detectMessageType(userMessage)
        hasContext == Len(trimText(context)) > 0
        relevantLines == relevantLinesOf(userMessageLower, context)
        answer == extractAnswer(userMessageLower, relevantLines)
    IN  IF messageType \in PureConversational /\ ~hasContext
        THEN Reply(getDefaultAnswer(messageType), 8, "default", messageType)
        ELSE IF hasContext /\ relevantLines # <<>>
        THEN IF answer.threw THEN Rejected
             ELSE Reply(finalClean(answer.text), 9, "pdf", "pdf_content")
        ELSE Reply(defaultAnswers.notFound, 3, "default", "notFound")

(***************************************************************************)
(* testChatQuery: retrieval, the choice of the context and the grounded    *)
(* answer.  handleChatQuery chooses the context and the answer by the same *)
(* statements and sends only response.message.                             *)
(***************************************************************************)
\* similarDocs.filter((doc) => doc.similarity >= 0.5)
highQualityMatches(similarDocs) ==
    SelectSeq(similarDocs, LAMBDA doc : SimAtLeast(doc.similarity, 5))

\* the context handed to generateChatResponse: the texts of the high-quality
\* matches, else the texts of all matches, else ""
contextOf(similarDocs) ==
    LET used == IF highQualityMatches(similarDocs) # <<>>
                THEN highQualityMatches(similarDocs) ELSE similarDocs
    IN  join([k \in 1..Len(used) |-> used[k].embedding.text], "\n\n")

\* Math.round(doc.similarity * 100) / 100 of a match, in hundredths
roundedSimilarity(s) ==
    IF \E h \in 1..100 : (2 * h - 1) * (2 * h - 1) * s.den2 <= 40000 * Key(s)
    THEN CHOOSE h \in 1..100 :
            /\ (2 * h - 1) * (2 * h - 1) * s.den2 <= 40000 * Key(s)
            /\ h < 100 => 40000 * Key(s) < (2 * h + 1) * (2 * h + 1) * s.den2
    ELSE 0

\* the sources of the reply: every high-quality match with 300 characters of
\* its text, else the first three matches with 200 characters
sourcesOf(similarDocs) ==
    LET high == highQualityMatches(similarDocs)
        used == IF high # <<>> THEN high ELSE slice(similarDocs, 3)
        width == IF high # <<>> THEN 300 ELSE 200
    IN  [k \in 1..Len(used) |->
            [text |-> slice(used[k].embedding.text, width) \o "...",
             similarity |-> roundedSimilarity(used[k].similarity),
             documentId |-> used[k].embedding.documentId,
             chunkIndex |-> used[k].embedding.chunkIndex]]

NoReply ==
    [status |-> 0, query |-> "", similarDocs |-> <<>>, response |-> Rejected,
     sources |-> <<>>]

\* One test query of tenant t: the message, and the vector the embedding
\* provider returns for it.
testChatQuery(t, message, queryEmbedding) ==
    /\ chatReply = NoReply
    /\ LET similarDocs == findSimilarDocuments(embeddingsDb, t, queryEmbedding,
                                               ChatOptions)
           response == generateChatResponse(message, contextOf(similarDocs))
       IN  /\ searchResult' = [tenantId |-> t, query |-> queryEmbedding,
                               options |-> ChatOptions, scanned |-> embeddingsDb,
                               results |-> similarDocs]
           /\ chatReply' =
                 [status |-> IF response.threw THEN 500 ELSE 200,
                  query |-> message,
                  similarDocs |-> similarDocs,
                  response |-> response,
                  sources |-> IF response.threw THEN <<>> ELSE sourcesOf(similarDocs)]
    /\ UNCHANGED <<documents, embeddingsDb, tenants, job, uploads, deletes,
                   chats, statusResp, chunkerCall, answerCall, sockets, faultsLeft,
                   providerFlaky>>

(***************************************************************************)
(* A caller of generateChatResponse with a message and a context; a        *)
(* context that is missing (undefined) is falsy like the empty text, and   *)
(* the function tests nothing else of it.                                  *)
(***************************************************************************)
NoAnswerCall ==
    [called |-> FALSE, userMessage |-> "", missing |-> TRUE, context |-> "",
     response |-> Rejected]

answerQuery ==
    /\ ~answerCall.called
    /\ answerCall' =
          [answerCall EXCEPT
             !.called = TRUE,
             !.response = generateChatResponse(answerCall.userMessage,
                             IF answerCall.missing THEN "" ELSE answerCall.context)]
    /\ UNCHANGED <<documents, embeddingsDb, tenants, job, uploads, deletes,
                   chats, statusResp, searchResult, chatReply, chunkerCall,
                   sockets, faultsLeft, providerFlaky>>

(***************************************************************************)
(* handleChatQuery: one request c with the widget key of tenant t (0: a    *)
(* key of no active tenant) and a message.                                 *)
(***************************************************************************)
\* status, error and reply are the response: its HTTP status (0 while there
\* is none), its error field, and its response field (of a 200) or message
\* field (of a 500).  failedAt is history: the call that threw.
NoChat ==
    [pc |-> "idle", tenantId |-> 0, currentQueries |-> 0, message |-> "",
     query |-> <<>>, similarDocs |-> <<>>, response |-> Rejected, status |-> 0,
     error |-> "",
     reply |-> "", failedAt |-> "none"]

TroubleMessage == "I'm having trouble processing your request. Please try again later."

\* return res.status(code).json({ error })
Refuse(chat, code, error) ==
    [chat EXCEPT !.pc = "done", !.status = code, !.error = error]

\* catch (error): res.status(500).json({ error, message })
ChatCatch(chat, call) ==
    [chat EXCEPT !.pc = "done", !.status = 500, !.error = "Failed to process query",
                 !.reply = TroubleMessage, !.failedAt = call]

\* the required fields; Tenant.findOne({ widgetKey, isActive }); the query
\* quota gate
Chat_start(c, t, message, storeOk) ==
    /\ chats[c].pc = "idle"
    /\ LET chat == [chats[c] EXCEPT !.tenantId = t, !.message = message]
       IN  IF message = ""
           THEN /\ storeOk
                /\ chats' = [chats EXCEPT ![c] =
                      Refuse(chat, 400, "Missing required fields: tenantKey and message")]
                /\ UNCHANGED faultsLeft
           ELSE /\ Fault(storeOk)
                /\ chats' = [chats EXCEPT ![c] =
                      IF ~storeOk THEN ChatCatch(chat, "tenant")
                      ELSE IF t \notin TenantIds
                      THEN Refuse(chat, 401, "Invalid tenant key")
                      ELSE IF ~canMakeQuery(tenants[t])
                      THEN Refuse(chat, 429, "Query limit reached. Please upgrade your plan.")
                      ELSE [chat EXCEPT !.pc = "embed",
                                        !.currentQueries = tenants[t].currentQueries]]
    /\ UNCHANGED <<documents, embeddingsDb, tenants, job, uploads, deletes,
                   statusResp, searchResult, chatReply, chunkerCall, answerCall, sockets,
                   providerFlaky>>

\* queryEmbedding = await generateEmbeddings(message)
Chat_embed(c, provOk, q) ==
    /\ chats[c].pc = "embed"
    /\ ProviderMay(provOk)
    /\ chats' = [chats EXCEPT ![c] =
          IF provOk THEN [@ EXCEPT !.query = q, !.pc = "search"]
          ELSE ChatCatch(@, "embedding")]
    /\ UNCHANGED <<documents, embeddingsDb, tenants, job, uploads, deletes,
                   statusResp, searchResult, chatReply, chunkerCall, answerCall, sockets, faultsLeft, providerFlaky>>

\* similarDocs = await findSimilarDocuments(tenant._id, queryEmbedding, ...)
Chat_search(c, storeOk) ==
    /\ chats[c].pc = "search"
    /\ Fault(storeOk)
    /\ LET similarDocs == findSimilarDocuments(embeddingsDb, chats[c].tenantId,
                                               chats[c].query, ChatOptions)
       IN  IF storeOk
           THEN /\ searchResult' =
                      [tenantId |-> chats[c].tenantId, query |-> chats[c].query,
                       options |-> ChatOptions,
                       scanned |-> embeddingsDb,
                       results |-> similarDocs]
                /\ chats' = [chats EXCEPT ![c] =
                      [@ EXCEPT !.similarDocs = similarDocs, !.pc = "generate"]]
           ELSE /\ chats' = [chats EXCEPT ![c] = ChatCatch(@, "search")]
                /\ UNCHANGED searchResult
    /\ UNCHANGED <<documents, embeddingsDb, tenants, job, uploads, deletes,
                   statusResp, chatReply, chunkerCall, answerCall, sockets, providerFlaky>>

\* response = await generateChatResponse(message, context)
Chat_generate(c) ==
    /\ chats[c].pc = "generate"
    /\ LET response == generateChatResponse(chats[c].message,
                                            contextOf(chats[c].similarDocs))
       IN  chats' = [chats EXCEPT ![c] =
              IF response.threw THEN ChatCatch(@, "generation")
              ELSE [@ EXCEPT !.response = response, !.pc = "increment"]]
    /\ UNCHANGED <<documents, embeddingsDb, tenants, job, uploads, deletes,
                   statusResp, searchResult, chatReply, chunkerCall, answerCall,
                   sockets, faultsLeft, providerFlaky>>

\* await tenant.incrementQueryCount(); res.json({ response: response.message })
Chat_increment(c, storeOk) ==
    /\ chats[c].pc = "increment"
    /\ Fault(storeOk)
    /\ IF storeOk
       THEN /\ tenants' = [tenants EXCEPT ![chats[c].tenantId] =
                  [@ EXCEPT !.currentQueries = StoreCounter(@, chats[c].currentQueries + 1),
                            !.queryIncs = @ + 1]]
            /\ chats' = [chats EXCEPT ![c] =
                  [@ EXCEPT !.pc = "done", !.status = 200,
                            !.reply = chats[c].response.message]]
       ELSE /\ UNCHANGED tenants
            /\ chats' = [chats EXCEPT ![c] = ChatCatch(@, "increment")]
    /\ UNCHANGED <<documents, embeddingsDb, job, uploads, deletes, statusResp,
                   searchResult, chatReply, chunkerCall, answerCall, sockets,
                   providerFlaky>>

(***************************************************************************)
(* A caller of the chunker: the text is split twice, by the controller's   *)
(* splitTextIntoChunks or by fileParser's.                                 *)
(***************************************************************************)
NoChunkerCall ==
    [called |-> FALSE, version |-> "controller", text |-> <<>>, maxTokens |-> 1,
     first |-> <<>>, second |-> <<>>]

ChunkerVersions == {"controller", "fileParser"}

chunkText ==
    /\ ~chunkerCall.called
    /\ LET c == chunkerCall
           chunksOf(text) == IF c.version = "fileParser"
                             THEN fileParser_splitTextIntoChunks(text, c.maxTokens)
                             ELSE splitTextIntoChunks(text, c.maxTokens)
       IN  chunkerCall' = [c EXCEPT !.called = TRUE, !.first = chunksOf(c.text),
                                    !.second = chunksOf(c.text)]
    /\ UNCHANGED <<documents, embeddingsDb, tenants, job, uploads, deletes,
                   chats, statusResp, searchResult, chatReply, answerCall,
                   sockets, faultsLeft, providerFlaky>>

(***************************************************************************)
(* socketService: the user:message handler of one chat socket.  Handler m  *)
(* calls handleChatQuery as chat request m (processSocketMessage).         *)
(***************************************************************************)
NoHandler == [pc |-> "idle", message |-> ""]

\* emitted: the events sent to the client, in the order they were sent; of
\* is history, the user:message the event was sent for
NoSockets ==
    [enableTypingIndicator |-> TRUE,
     handler |-> [m \in 1..MaxRequests |-> NoHandler],
     emitted |-> <<>>]

\* socket.emit("bot:typing", { isTyping })
TypingEvent(m, isTyping) ==
    [event |-> "bot:typing", of |-> m, isTyping |-> isTyping, type |-> "none",
     message |-> ""]
\* socket.emit("bot:message", { message, timestamp, type })
BotMessage(m, type, message) ==
    [event |-> "bot:message", of |-> m, isTyping |-> FALSE, type |-> type,
     message |-> message]
\* socket.emit("error", { message: "Invalid message format" })
ErrorEvent(m) ==
    [event |-> "error", of |-> m, isTyping |-> FALSE, type |-> "none",
     message |-> "Invalid message format"]

\* Variant of StopTyping: the failure path does not stop the indicator.
StopTypingOnSuccessOnly(enabled, succeeded, m) ==
    IF enabled /\ succeeded THEN <<TypingEvent(m, FALSE)>> ELSE <<>>

\* the typing indicator is stopped when it is enabled (success path), and
\* always in the catch
StopTyping(enabled, succeeded, m) ==
    IF enabled \/ ~succeeded THEN <<TypingEvent(m, FALSE)>> ELSE <<>>

\* socket.on("user:message"): the message is checked ("" stands for every
\* message that is not a non-empty string), the typing indicator is started
\* and the response delay begins
Socket_userMessage(m, message) ==
    /\ sockets.handler[m].pc = "idle"
    /\ sockets' =
          IF message = ""
          THEN [sockets EXCEPT !.handler[m] = [pc |-> "done", message |-> message],
                               !.emitted = Append(@, ErrorEvent(m))]
          ELSE [sockets EXCEPT !.handler[m] = [pc |-> "delay", message |-> message],
                               !.emitted = IF sockets.enableTypingIndicator
                                           THEN Append(@, TypingEvent(m, TRUE))
                                           ELSE @]
    /\ UNCHANGED <<documents, embeddingsDb, tenants, job, uploads, deletes,
                   chats, statusResp, searchResult, chatReply, chunkerCall, answerCall,
                   faultsLeft, providerFlaky>>

\* the response delay has passed: processSocketMessage calls handleChatQuery
Socket_delay(m) ==
    /\ sockets.handler[m].pc = "delay"
    /\ sockets' = [sockets EXCEPT !.handler[m].pc = "processing"]
    /\ UNCHANGED <<documents, embeddingsDb, tenants, job, uploads, deletes,
                   chats, statusResp, searchResult, chatReply, chunkerCall, answerCall,
                   faultsLeft, providerFlaky>>

\* handleChatQuery of handler m: its first step takes the handler's message
Socket_handleChatQuery(m, t, S, P, Q) ==
    /\ sockets.handler[m].pc = "processing"
    /\ \/ \E storeOk \in S : Chat_start(m, t, sockets.handler[m].message, storeOk)
       \/ \E provOk \in P, q \in Q : Chat_embed(m, provOk, q)
       \/ \E storeOk \in S : Chat_search(m, storeOk)
       \/ Chat_generate(m)
       \/ \E storeOk \in S : Chat_increment(m, storeOk)

\* handleChatQuery has answered: a response with a statusCode is thrown and
\* caught; the typing indicator is stopped and the bot:message is sent
Socket_respond(m) ==
    /\ sockets.handler[m].pc = "processing"
    /\ chats[m].pc = "done"
    /\ LET succeeded == chats[m].status = 200
       IN  sockets' =
              [sockets EXCEPT
                 !.handler[m].pc = "done",
                 !.emitted = @ \o StopTyping(sockets.enableTypingIndicator, succeeded, m)
                               \o <<IF succeeded
                                     THEN BotMessage(m, "response", chats[m].reply)
                                     ELSE BotMessage(m, "error", TroubleMessage)>>]
    /\ UNCHANGED <<documents, embeddingsDb, tenants, job, uploads, deletes,
                   chats, statusResp, searchResult, chatReply, chunkerCall, answerCall,
                   faultsLeft, providerFlaky>>

(***************************************************************************)
(* Specifications.                                                         *)
(*   Spec        one upload of one file and its processDocumentAsync run,  *)
(*               with status polls, a deleteDocument request, a flaky      *)
(*               provider and data-store faults                            *)
(*   FairSpec    Spec with the run's steps scheduled fairly                *)
(*   SpecTenant  concurrent uploads, deletes and chat queries of one       *)
(*               tenant (reliable provider)                                *)
(*   SpecEarlier one upload and its run in the earlier copy of the         *)
(*               controller                                                *)
(*   SpecJobs    concurrent uploads and the runs they start                *)
(*   SpecSearch  findSimilarDocuments on any contents of the store         *)
(*   SpecGrounding, SpecAnswer  the grounding step on chosen matches, and  *)
(*               generateChatResponse on chosen messages and contexts      *)
(*   SpecChunker splitTextIntoChunks on every short text                   *)
(*   SpecChat    user:message events on a chat socket and the              *)
(*               handleChatQuery calls they make; FairSpecChat schedules   *)
(*               the handlers' steps fairly                                *)
(*   SpecSequential  uploads and deletes handled one after the other       *)
(***************************************************************************)
MaxDocuments == 2
MaxQueries == 2
TenantStoreFaults == 1
MaxFiles == 2
MaxEmbeddings == 2

InitCommon ==
    /\ documents = [d \in DocIds |-> NoDocument]
    /\ embeddingsDb = <<>>
    /\ tenants = [t \in TenantIds |-> NewTenant(MaxDocuments, MaxQueries)]
    /\ job = [d \in DocIds |-> NoJob]
    /\ uploads = [r \in 1..MaxRequests |-> NoUpload]
    /\ deletes = [q \in 1..MaxRequests |-> NoDelete]
    /\ chats = [c \in 1..MaxRequests |-> NoChat]
    /\ statusResp = [d \in DocIds |-> NoStatus]
    /\ searchResult = NoSearch
    /\ chatReply = NoReply
    /\ chunkerCall = NoChunkerCall
    /\ answerCall = NoAnswerCall
    /\ sockets = NoSockets

Init ==
    /\ InitCommon
    /\ faultsLeft = MaxStoreFaults
    /\ providerFlaky = TRUE

Next ==
    \/ \E f \in Files : Upload_start(1, 1, <<f>>)
    \/ \E storeOk \in BOOLEAN : Upload_saveDocument(1, storeOk)
    \/ \E storeOk \in BOOLEAN : Upload_increment(1, storeOk)
    \/ \E d \in DocIds : processDocumentAsync(d, BOOLEAN, ProviderOutcomes, 0..(BATCH_SIZE - 1))
    \/ \E d \in DocIds : Delete_start(1, d)
    \/ \E storeOk \in BOOLEAN :
          \/ Delete_saveInactive(1, storeOk)
          \/ Delete_decrement(1, storeOk)
          \/ Delete_updateMany(1, storeOk)
    \/ Delete_tenantFind(1)
    \/ \E d \in DocIds : getUploadStatus(d)

Spec == Init /\ [][Next]_vars

\* The job's steps are always taken eventually (the event loop runs them).
FairSpec ==
    Spec /\ WF_vars(\E d \in DocIds :
                        processDocumentAsync(d, BOOLEAN, ProviderOutcomes, 0..(BATCH_SIZE - 1)))

TenantFiles == {[type |-> "txt", raw |-> <<"w">>], [type |-> "txt", raw |-> <<"s">>]}
FileLists == UNION {[1..n -> TenantFiles] : n \in 1..MaxFiles}

InitTenant ==
    /\ InitCommon
    /\ faultsLeft = TenantStoreFaults
    /\ providerFlaky = FALSE

\* Uploads and deletes of tenant 1.  The runs the uploads start are not
\* stepped here: a run never reads or writes a tenant.
NextTenant ==
    \/ \E r \in 1..MaxRequests, files \in FileLists : Upload_start(r, 1, files)
    \/ \E r \in 1..MaxRequests, storeOk \in BOOLEAN :
          \/ Upload_saveDocument(r, storeOk)
          \/ Upload_increment(r, storeOk)
    \/ \E d \in DocIds : Delete_start(1, d)
    \/ \E storeOk \in BOOLEAN :
          \/ Delete_saveInactive(1, storeOk)
          \/ Delete_decrement(1, storeOk)
          \/ Delete_updateMany(1, storeOk)
    \/ Delete_tenantFind(1)
    \/ \E c \in 1..MaxRequests, storeOk \in BOOLEAN : Chat_start(c, 1, "Hello", storeOk)
    \/ \E c \in 1..MaxRequests : Chat_embed(c, TRUE, ProviderVector(<<1>>))
    \/ \E c \in 1..MaxRequests : Chat_generate(c)
    \/ \E c \in 1..MaxRequests, storeOk \in BOOLEAN :
          \/ Chat_search(c, storeOk)
          \/ Chat_increment(c, storeOk)

SpecTenant == InitTenant /\ [][NextTenant]_vars

\* One upload handled by the earlier copy of the controller, and its run.
NextEarlier ==
    \/ \E f \in Files : Upload_start(1, 1, <<f>>)
    \/ \E storeOk \in BOOLEAN : Earlier_saveDocument(1, storeOk)
    \/ \E d \in DocIds : processDocumentAsyncEarlier(d, BOOLEAN, BOOLEAN)
    \/ \E d \in DocIds : getUploadStatus(d)

SpecEarlier == Init /\ [][NextEarlier]_vars

InitJobs ==
    /\ InitCommon
    /\ faultsLeft = TenantStoreFaults
    /\ providerFlaky = TRUE

\* Concurrent uploads of the same file, and the runs they start.  The data
\* store may reject a call of an upload; the provider may fail the calls of
\* the first document's run.
NextJobs ==
    \/ \E r \in 1..MaxRequests :
          Upload_start(r, 1, <<[type |-> "txt", raw |-> <<"w", "s", "w", "s", "w">>]>>)
    \/ \E r \in 1..MaxRequests, storeOk \in BOOLEAN :
          \/ Upload_saveDocument(r, storeOk)
          \/ Upload_increment(r, storeOk)
    \/ processDocumentAsync(1, {TRUE}, {"ok", "transient"}, {0})
    \/ \E d \in DocIds \ {1} : processDocumentAsync(d, {TRUE}, {"ok"}, {0})

SpecJobs == InitJobs /\ [][NextJobs]_vars

\* Vectors of the search model: all ones, a unit vector, zero, a negative one
\* and one of a wrong dimension.
SearchVectors ==
    { [k \in 1..Dim |-> 1], [k \in 1..Dim |-> IF k = 1 THEN 1 ELSE 0],
      [k \in 1..Dim |-> 0], [k \in 1..Dim |-> 0 - 1], [k \in 1..(Dim - 1) |-> 1] }
QueryVectors == {[k \in 1..Dim |-> 1], [k \in 1..Dim |-> IF k = 1 THEN 1 ELSE 0]}

StoredEmbeddings ==
    [tenantId : TenantIds, documentId : {1, MaxDocs}, text : {<<1>>},
     embedding : SearchVectors, chunkIndex : {0}, category : {"none"},
     isActive : BOOLEAN]

SearchOptions ==
    [limit : {1, 5}, minSimilarity : {1, 7}, category : {"null"},
     excludeDocumentIds : {{}}]
    \cup [limit : {1, 5}, minSimilarity : {1, 7}, category : {"none"},
           excludeDocumentIds : {{1}}]

InitSearch ==
    /\ documents = [d \in DocIds |-> NoDocument]
    /\ embeddingsDb \in UNION {[1..n -> StoredEmbeddings] : n \in 0..MaxEmbeddings}
    /\ tenants = [t \in TenantIds |-> NewTenant(MaxDocuments, MaxQueries)]
    /\ job = [d \in DocIds |-> NoJob]
    /\ uploads = [r \in 1..MaxRequests |-> NoUpload]
    /\ deletes = [q \in 1..MaxRequests |-> NoDelete]
    /\ chats = [c \in 1..MaxRequests |-> NoChat]
    /\ statusResp = [d \in DocIds |-> NoStatus]
    /\ searchResult = NoSearch
    /\ chatReply = NoReply
    /\ chunkerCall = NoChunkerCall
    /\ answerCall = NoAnswerCall
    /\ sockets = NoSockets
    /\ faultsLeft = 0
    /\ providerFlaky = FALSE

NextSearch ==
    \E q \in QueryVectors, options \in SearchOptions :
        /\ searchResult = NoSearch
        /\ Search(1, q, options)

SpecSearch == InitSearch /\ [][NextSearch]_vars

(***************************************************************************)
(* SpecGrounding: test queries against stores of embedded chunks.          *)
(***************************************************************************)
MaxMatches == 2

\* The query vector, a stored vector equal to it (similarity 1) and a stored
\* vector of similarity between 0.1 and 0.5 to it.
GroundingQuery == [k \in 1..Dim |-> 1]
WeakVector == [k \in 1..Dim |-> IF k = 1 THEN 3 ELSE IF k = 2 THEN 0 - 2 ELSE 0]

RefundText ==
    "The refund policy allows returns within 30 days. Contact support at help@x.com for refund requests."
OverviewText ==
    "Our platform offers a comprehensive solution.\nPricing starts at $10 per month."
ShortText == "A solution."
GroundingTexts == {RefundText, OverviewText, ShortText}

RefundQuery == "what is your refund policy"
GroundingQueries ==
    {RefundQuery, "refund policy", "Hello", "thanks a lot", "bye", "what is the solution",
     "how much does it cost"}

GroundingEmbeddings ==
    [tenantId : {1}, documentId : {1}, text : GroundingTexts,
     embedding : {GroundingQuery, WeakVector}, chunkIndex : {0},
     category : {"none"}, isActive : {TRUE}]

InitGrounding ==
    /\ documents = [d \in DocIds |-> NoDocument]
    /\ embeddingsDb \in UNION {[1..n -> GroundingEmbeddings] : n \in 0..MaxMatches}
    /\ tenants = [t \in TenantIds |-> NewTenant(MaxDocuments, MaxQueries)]
    /\ job = [d \in DocIds |-> NoJob]
    /\ uploads = [r \in 1..MaxRequests |-> NoUpload]
    /\ deletes = [q \in 1..MaxRequests |-> NoDelete]
    /\ chats = [c \in 1..MaxRequests |-> NoChat]
    /\ statusResp = [d \in DocIds |-> NoStatus]
    /\ searchResult = NoSearch
    /\ chatReply = NoReply
    /\ chunkerCall = NoChunkerCall
    /\ answerCall = NoAnswerCall
    /\ sockets = NoSockets
    /\ faultsLeft = 0
    /\ providerFlaky = FALSE

NextGrounding ==
    \E message \in GroundingQueries : testChatQuery(1, message, GroundingQuery)

SpecGrounding == InitGrounding /\ [][NextGrounding]_vars

(***************************************************************************)
(* SpecChunker: the chunker on every text of up to MaxTextLen characters   *)
(* and every chunk size up to MaxChunkWords.                               *)
(***************************************************************************)
MaxTextLen == 5
MaxChunkWords == 3

Texts == UNION {[1..n -> {"w", "s"}] : n \in 0..MaxTextLen}

InitChunker ==
    /\ documents = [d \in DocIds |-> NoDocument]
    /\ embeddingsDb = <<>>
    /\ tenants = [t \in TenantIds |-> NewTenant(MaxDocuments, MaxQueries)]
    /\ job = [d \in DocIds |-> NoJob]
    /\ uploads = [r \in 1..MaxRequests |-> NoUpload]
    /\ deletes = [q \in 1..MaxRequests |-> NoDelete]
    /\ chats = [c \in 1..MaxRequests |-> NoChat]
    /\ statusResp = [d \in DocIds |-> NoStatus]
    /\ searchResult = NoSearch
    /\ chatReply = NoReply
    /\ sockets = NoSockets
    /\ answerCall = NoAnswerCall
    /\ chunkerCall \in [called : {FALSE}, version : ChunkerVersions, text : Texts,
                        maxTokens : 1..MaxChunkWords, first : {<<>>},
                        second : {<<>>}]
    /\ faultsLeft = 0
    /\ providerFlaky = FALSE

NextChunker == chunkText

SpecChunker == InitChunker /\ [][NextChunker]_vars

(***************************************************************************)
(* SpecAnswer: generateChatResponse on conversational messages and content *)
(* questions, with a context that is missing, empty, blank, or a text.     *)
(***************************************************************************)
StepsText == "1. Open the app.\nFollow these steps to use it."
FeaturesText == "Key features:\n- Fast search"
AnswerMessages ==
    {"Hello", "hi", "Good morning", "thanks a lot", "Thank you", "bye",
     "see you later", RefundQuery, "what is the solution", "how much does it cost",
     "how do I use it", "key features", "contact email", "refund policy"}
AnswerContexts ==
    {"", " ", "\n \t", RefundText, OverviewText, ShortText, StepsText, FeaturesText}

InitAnswer ==
    /\ documents = [d \in DocIds |-> NoDocument]
    /\ embeddingsDb = <<>>
    /\ tenants = [t \in TenantIds |-> NewTenant(MaxDocuments, MaxQueries)]
    /\ job = [d \in DocIds |-> NoJob]
    /\ uploads = [r \in 1..MaxRequests |-> NoUpload]
    /\ deletes = [q \in 1..MaxRequests |-> NoDelete]
    /\ chats = [c \in 1..MaxRequests |-> NoChat]
    /\ statusResp = [d \in DocIds |-> NoStatus]
    /\ searchResult = NoSearch
    /\ chatReply = NoReply
    /\ chunkerCall = NoChunkerCall
    /\ sockets = NoSockets
    /\ answerCall \in
          [called : {FALSE}, userMessage : AnswerMessages, missing : {TRUE},
           context : {""}, response : {Rejected}]
          \cup [called : {FALSE}, userMessage : AnswerMessages, missing : {FALSE},
                context : AnswerContexts, response : {Rejected}]
    /\ faultsLeft = 0
    /\ providerFlaky = FALSE

NextAnswer == answerQuery

SpecAnswer == InitAnswer /\ [][NextAnswer]_vars

(***************************************************************************)
(* SpecChat: user:message events on one chat socket of tenant 1, against   *)
(* a store of at most one embedded chunk; the provider and the data store  *)
(* may fail, and the tenant may have been deactivated since the socket     *)
(* connected (key 0).                                                      *)
(***************************************************************************)
ChatMessages == {"", "Hello", "what is the solution"}
ChatEmbeddings ==
    [tenantId : {1}, documentId : {1}, text : {RefundText, ShortText},
     embedding : {GroundingQuery}, chunkIndex : {0}, category : {"none"},
     isActive : {TRUE}]

InitChat ==
    /\ documents = [d \in DocIds |-> NoDocument]
    /\ embeddingsDb \in {<<>>} \cup {<<e>> : e \in ChatEmbeddings}
    /\ tenants \in {[t \in TenantIds |->
                        [NewTenant(MaxDocuments, MaxQueries) EXCEPT
                            !.currentQueries = used, !.queryIncs = used]] :
                    used \in {0, MaxQueries - 1}}
    /\ job = [d \in DocIds |-> NoJob]
    /\ uploads = [r \in 1..MaxRequests |-> NoUpload]
    /\ deletes = [q \in 1..MaxRequests |-> NoDelete]
    /\ chats = [c \in 1..MaxRequests |-> NoChat]
    /\ statusResp = [d \in DocIds |-> NoStatus]
    /\ searchResult = NoSearch
    /\ chatReply = NoReply
    /\ chunkerCall = NoChunkerCall
    /\ answerCall = NoAnswerCall
    /\ sockets \in {[NoSockets EXCEPT !.enableTypingIndicator = enabled] :
                    enabled \in BOOLEAN}
    /\ faultsLeft = TenantStoreFaults
    /\ providerFlaky = TRUE

\* The steps of the handlers once their user:message has arrived.
HandlerSteps ==
    \E m \in 1..MaxRequests :
        \/ Socket_delay(m)
        \/ \E t \in {0, 1} :
              Socket_handleChatQuery(m, t, BOOLEAN, BOOLEAN, {GroundingQuery})
        \/ Socket_respond(m)

NextChat ==
    \/ \E m \in 1..MaxRequests, message \in ChatMessages : Socket_userMessage(m, message)
    \/ HandlerSteps

SpecChat == InitChat /\ [][NextChat]_vars

\* A handler whose user:message has arrived has a next step: the timer of
\* its delay, the next call of handleChatQuery, or its answer.
HandlerPending ==
    \E m \in 1..MaxRequests : sockets.handler[m].pc \in {"delay", "processing"}

\* The event loop runs every handler's next step eventually: weak fairness
\* of HandlerSteps, which is enabled exactly when a handler is pending.
FairSpecChat ==
    SpecChat /\ ([]<>(~HandlerPending) \/ []<><<HandlerSteps>>_vars)

(***************************************************************************)
(* Properties.                                                             *)
(***************************************************************************)
Terminal == {"completed", "failed"}

\* The moves of the stated status machine: pending -> processing ->
\* completed | failed.
StatusStep(a, b) ==
    \/ a = b
    \/ a = "pending" /\ b = "processing"
    \/ a = "processing" /\ b \in Terminal

\* C1 (as stated): the stored processingStatus of a document moves only along
\* pending -> processing -> completed | failed, never backwards, and never
\* changes once it is completed or failed.
C1_StatusMachine ==
    [][\A d \in DocIds : StatusStep(documents[d].processingStatus,
                                    documents'[d].processingStatus)]_vars

\* C1 (amended): the stored processingStatus moves only along pending ->
\* processing -> completed | failed, or from pending straight to failed when
\* the write of processing was rejected by the data store (the stored error
\* is then the store's); it never moves backwards and never changes once it
\* is completed or failed.
C1_StatusMachineOrRejectedWrite ==
    [][\A d \in DocIds :
          \/ StatusStep(documents[d].processingStatus, documents'[d].processingStatus)
          \/ /\ documents[d].processingStatus = "pending"
             /\ documents'[d].processingStatus = "failed"
             /\ documents'[d].processingError = StoreError
             /\ faultsLeft < MaxStoreFaults]_vars

\* A run went through processing to completed while the document was polled
\* and deleted.
C1_Witness ==
    /\ documents[1].processingStatus = "completed"
    /\ ~documents[1].isActive
    /\ statusResp[1].seen /\ statusResp[1].status = "processing"

\* C2: a document whose stored status is completed has embeddingCount >= 1.
C2_CompletedHasEmbedding ==
    \A d \in DocIds :
        documents[d].processingStatus = "completed" => documents[d].embeddingCount >= 1

\* A completed document of one chunk of which no embedding was produced.
C2_Witness ==
    /\ documents[1].processingStatus = "completed"
    /\ documents[1].chunkCount = 1
    /\ documents[1].embeddingCount = 0
    /\ job[1].embedded = {}

C4_EventuallyTerminal ==
    \A d \in DocIds :
        (job[d].pc = "findById") ~> (documents[d].processingStatus \in Terminal)

\* A run has ended and left the document pending.
C4_Witness ==
    /\ job[1].pc = "done"
    /\ documents[1].processingStatus = "pending"

\* C5: in every stored state of a document, and so in every status response,
\* 0 <= embeddingCount <= chunkCount.
C5_CountWithinChunks ==
    \A d \in DocIds :
        /\ 0 <= documents[d].embeddingCount
        /\ documents[d].embeddingCount <= documents[d].chunkCount
        /\ 0 <= statusResp[d].embeddingCount
        /\ statusResp[d].embeddingCount <= statusResp[d].chunkCount

\* A status response of a document of one chunk reports two embeddings.
C5_Witness ==
    /\ statusResp[1].seen
    /\ statusResp[1].chunkCount = 1
    /\ statusResp[1].embeddingCount = 2

\* C6: of two successive status responses of a document, the later one, when
\* it reports processing, reports an embeddingCount not below the earlier one's.
C6_PolledCountMonotone ==
    [][\A d \in DocIds :
          (statusResp[d].seen /\ statusResp'[d].status = "processing") =>
              statusResp'[d].embeddingCount >= statusResp[d].embeddingCount]_vars

\* A poll saw the first batch's count while the second batch was stored.
C6_Witness ==
    /\ statusResp[1].status = "processing"
    /\ statusResp[1].embeddingCount = 2
    /\ documents[1].processingStatus = "processing"
    /\ documents[1].embeddingCount = 3

C9_CountersExact ==
    \A t \in TenantIds :
        /\ tenants[t].currentDocuments = tenants[t].docIncs - tenants[t].docDecs
        /\ tenants[t].currentQueries = tenants[t].queryIncs

\* Two increments of currentDocuments were stored and the counter is 1.
C9_Witness ==
    /\ tenants[1].docIncs = 2
    /\ tenants[1].docDecs = 0
    /\ tenants[1].currentDocuments = 1

\* C10: every result of findSimilarDocuments is an embedding of the store that
\* belongs to the requested tenant and is active.
C10_ResultsOfTenantAndActive ==
    \A x \in 1..Len(searchResult.results) :
        LET e == searchResult.results[x].embedding
        IN  /\ e.tenantId = searchResult.tenantId
            /\ e.isActive
            /\ \E y \in 1..Len(searchResult.scanned) : searchResult.scanned[y] = e

\* A search returned a result while the store also held the same vector as an
\* inactive embedding of the tenant or as an embedding of the other tenant.
C10_Witness ==
    /\ Len(searchResult.results) = 1
    /\ Len(searchResult.scanned) = 2
    /\ \E y \in 1..2 :
          /\ searchResult.scanned[y].embedding = searchResult.results[1].embedding.embedding
          /\ searchResult.scanned[y].documentId = searchResult.results[1].embedding.documentId
          /\ \/ ~searchResult.scanned[y].isActive
             \/ searchResult.scanned[y].tenantId # searchResult.tenantId

\* The candidates of the last search: what the scan filter lets through,
\* each with its similarity, in scan order.
Candidates ==
    LET es == SelectSeq(searchResult.scanned,
                  LAMBDA e : ScanFilter(e, searchResult.tenantId, searchResult.options))
    IN  [x \in 1..Len(es) |-> ScoreOf(searchResult.query, es[x])]

\* The candidates whose similarity reaches minSimilarity.
Qualifying ==
    {x \in 1..Len(Candidates) :
        SimAtLeast(Candidates[x].similarity, searchResult.options.minSimilarity)}

SimGT(s, r) == ~SimGE(r, s)

\* C11: the list findSimilarDocuments returns is sorted in non-increasing
\* order of similarity, and every returned match has similarity >=
\* minSimilarity.
C11_SortedAndAboveThreshold ==
    /\ \A x \in 1..Len(searchResult.results) :
          SimAtLeast(searchResult.results[x].similarity,
                     searchResult.options.minSimilarity)
    /\ \A x, y \in 1..Len(searchResult.results) :
          x < y => SimGE(searchResult.results[x].similarity,
                         searchResult.results[y].similarity)

\* Two matches were returned, the second scanned one first.
C11_Witness ==
    /\ Len(searchResult.results) = 2
    /\ Len(searchResult.scanned) = 2
    /\ SimGT(searchResult.results[1].similarity, searchResult.results[2].similarity)
    /\ searchResult.results[1].embedding = searchResult.scanned[2]

\* C12: the result has min(limit, number of qualifying candidates) entries,
\* and every candidate with a strictly higher similarity than some returned
\* match is returned (as often as it is in the store).
C12_TruncatedAfterRanking ==
    searchResult # NoSearch =>
    /\ Len(searchResult.results) =
          Min(searchResult.options.limit, Cardinality(Qualifying))
    /\ \A c \in Qualifying, x \in 1..Len(searchResult.results) :
          SimGT(Candidates[c].similarity, searchResult.results[x].similarity) =>
              Cardinality({y \in 1..Len(searchResult.results) :
                              searchResult.results[y] = Candidates[c]})
                = Cardinality({z \in Qualifying : Candidates[z] = Candidates[c]})

\* limit 1 with two qualifying candidates: the second scanned one, which has
\* the higher similarity, is the one returned.
C12_Witness ==
    /\ searchResult # NoSearch
    /\ searchResult.options.limit = 1
    /\ Cardinality(Qualifying) = 2
    /\ Len(searchResult.results) = 1
    /\ searchResult.results[1] = Candidates[2]
    /\ SimGT(Candidates[2].similarity, Candidates[1].similarity)

\* C13 (as stated): a query that retrieves no match is answered with the
\* canned not-found message at confidence 0.3, whatever the query says.
C13_NoMatchesNotFound ==
    (chatReply.status # 0 /\ chatReply.similarDocs = <<>>) =>
        /\ chatReply.status = 200
        /\ chatReply.response.message = defaultAnswers.notFound
        /\ chatReply.response.confidence = 3

\* C13 (amended): a query that retrieves no match is answered from the canned
\* answers only: a greeting, thanks or goodbye gets the canned answer of its
\* kind at confidence 0.8, every other query gets the not-found message at
\* confidence 0.3.
C13_NoMatchesCannedAnswer ==
    (chatReply.status # 0 /\ chatReply.similarDocs = <<>>) =>
        /\ chatReply.status = 200
        /\ chatReply.response.source = "default"
        /\ IF detectMessageType(chatReply.query) \in PureConversational
           THEN /\ chatReply.response.message =
                      defaultAnswers[detectMessageType(chatReply.query)]
                /\ chatReply.response.confidence = 8
           ELSE /\ chatReply.response.message = defaultAnswers.notFound
                /\ chatReply.response.confidence = 3

\* The refund question against an empty store is answered with the not-found
\* message at confidence 0.3.
C13_Witness ==
    /\ chatReply.status = 200
    /\ chatReply.query = RefundQuery
    /\ searchResult.scanned = <<>>
    /\ chatReply.similarDocs = <<>>
    /\ chatReply.response.message = defaultAnswers.notFound
    /\ chatReply.response.confidence = 3

\* C14: when the retrieval returns matches but none of similarity >= 0.5, the
\* answer is the canned not-found message with source "default"; the text of
\* the weak matches appears in the sources only.
C14_WeakMatchesNotFound ==
    (/\ chatReply.status # 0
     /\ chatReply.similarDocs # <<>>
     /\ highQualityMatches(chatReply.similarDocs) = <<>>) =>
        /\ chatReply.status = 200
        /\ chatReply.response.message = defaultAnswers.notFound
        /\ chatReply.response.source = "default"

\* The only match is a weak one, and the answer is a sentence of its text
\* given as a grounded answer.
C14_Witness ==
    /\ chatReply.status = 200
    /\ Len(chatReply.similarDocs) = 1
    /\ highQualityMatches(chatReply.similarDocs) = <<>>
    /\ chatReply.similarDocs[1].embedding.text = RefundText
    /\ chatReply.response.source = "pdf"
    /\ chatReply.response.confidence = 9
    /\ chatReply.response.message = "The refund policy allows returns within 30 days."

\* C15: the refund question, with the chunk holding the refund text as its
\* one high-quality match, is answered from the chunk: the answer contains
\* "30 days" and its source is "pdf".
C15_RefundScenario ==
    (/\ chatReply.status # 0
     /\ chatReply.query = RefundQuery
     /\ Len(chatReply.similarDocs) = 1
     /\ chatReply.similarDocs[1].embedding.text = RefundText
     /\ SimAtLeast(chatReply.similarDocs[1].similarity, 5)) =>
        /\ chatReply.status = 200
        /\ includes(chatReply.response.message, "30 days")
        /\ chatReply.response.source = "pdf"

\* The refund scenario has run and the reply is the not-found message.
C15_Witness ==
    /\ chatReply.status = 200
    /\ chatReply.query = RefundQuery
    /\ Len(chatReply.similarDocs) = 1
    /\ chatReply.similarDocs[1].embedding.text = RefundText
    /\ SimAtLeast(chatReply.similarDocs[1].similarity, 5)
    /\ lineScore(toLowerCase(RefundQuery), RefundText) = 0 - 9
    /\ chatReply.response.message = defaultAnswers.notFound
    /\ chatReply.response.source = "default"

\* C16: an empty document (zero-length or whitespace-only text) submitted for
\* ingestion yields zero chunks and ends failed with an error and chunkCount
\* 0.  Checked on the step of uploadDocuments that takes the file: the text
\* splits into zero chunks (at the model's and at the code's chunk size), and
\* the step stores the Document whose run is to end failed.
C16_EmptyDocumentFails ==
    [][\A r \in 1..MaxRequests :
          (/\ uploads[r].pc = "saveDocument"
           /\ uploads'[r].pc # "saveDocument"
           /\ ~ParseFails(Head(uploads[r].files))
           /\ \A k \in 1..Len(parseFileContent(Head(uploads[r].files))) :
                  parseFileContent(Head(uploads[r].files))[k] = "s") =>
              /\ splitTextIntoChunks(parseFileContent(Head(uploads[r].files)),
                                     MaxTokens) = <<>>
              /\ splitTextIntoChunks(parseFileContent(Head(uploads[r].files)),
                                     800) = <<>>
              /\ \E d \in DocIds :
                    /\ ~documents[d].exists
                    /\ documents'[d].exists
                    /\ documents'[d].content = parseFileContent(Head(uploads[r].files))
      ]_vars

\* C17: a call of generateBatchEmbeddingsWithRetry or of
\* generateEmbeddingsWithRetry makes at most maxRetries attempts; before
\* attempt k + 1 it has waited min(1000 * 2^(k-1), 5000) ms after attempt k
\* (1000, then 2000), and never after the last attempt; a successful attempt
\* ends the call; and the call gives up (its error reaches the caller) only
\* when attempt maxRetries has failed.
C17_RetryWithBackoff ==
    /\ [](\A d \in DocIds :
            /\ job[d].attempt \in 1..maxRetries
            /\ Len(job[d].delays) = job[d].attempt - 1
            /\ \A k \in 1..Len(job[d].delays) :
                  /\ job[d].delays[k] = IF 1000 * 2 ^ (k - 1) < 5000
                                        THEN 1000 * 2 ^ (k - 1) ELSE 5000
                  /\ job[d].delays[k] <= 5000
            /\ job[d].pc \in {"batchBackoff", "chunkBackoff"} =>
                  job[d].attempt < maxRetries)
    /\ [][\A d \in DocIds :
            /\ (job[d].pc = "batchEmbed" /\ job'[d] # job[d]) =>
                  \/ job'[d].pc = "insertMany"
                  \/ job'[d].pc = "batchBackoff" /\ job[d].attempt < maxRetries
                  \/ /\ [job'[d] EXCEPT !.gaveUp = job[d].gaveUp] = Fallback(job[d])
                     /\ job[d].attempt = maxRetries
            /\ (job[d].pc = "chunkEmbed" /\ job'[d] # job[d]) =>
                  \/ job'[d].pc = "chunkSave"
                  \/ job'[d].pc = "chunkBackoff" /\ job[d].attempt < maxRetries
                  \/ job'[d] = NextChunk(d, job[d]) /\ job[d].attempt = maxRetries
            /\ (job[d].pc \in {"batchBackoff", "chunkBackoff"} /\ job'[d] # job[d]) =>
                  /\ job'[d].attempt = job[d].attempt + 1
                  /\ job'[d].pc = IF job[d].pc = "batchBackoff" THEN "batchEmbed"
                                  ELSE "chunkEmbed"
       ]_vars

\* The third attempt of a single-chunk call, after waits of 1000 and 2000 ms,
\* in a run whose batch call gave up before.
C17_Witness ==
    \E d \in DocIds :
        /\ job[d].pc = "chunkEmbed"
        /\ job[d].attempt = maxRetries
        /\ job[d].delays = <<1000, 2000>>

\* C18: a provider call that failed with a permanent error (invalid
\* credentials, quota exhausted) is not attempted again: no retry wrapper
\* waits for a retry, or makes a further attempt, with a permanent error as
\* its last error.
C18_PermanentNotRetried ==
    \A d \in DocIds : job[d].lastError # "permanent"

\* The batch call waits to retry after its first attempt failed with a
\* permanent error.
C18_Witness ==
    \E d \in DocIds :
        /\ job[d].pc = "batchBackoff"
        /\ job[d].attempt = 1
        /\ job[d].lastError = "permanent"

\* C19: a search that meets a stored vector whose dimension differs from the
\* query's fails: no search that returned a result list had such a vector
\* among its candidates.
C19_MismatchFailsSearch ==
    searchResult # NoSearch =>
        \A x \in 1..Len(Candidates) :
            Len(Candidates[x].embedding.embedding) = Len(searchResult.query)

\* A search returned: its first candidate has the wrong dimension and was
\* given similarity 0, its second candidate is the result.
C19_Witness ==
    /\ searchResult # NoSearch
    /\ Len(Candidates) = 2
    /\ Len(Candidates[1].embedding.embedding) # Len(searchResult.query)
    /\ Candidates[1].similarity = Zero
    /\ searchResult.results = <<Candidates[2]>>

\* C20: once deleteDocument of a document has finished, no active Embedding
\* belongs to that document while it is inactive, whatever its
\* processDocumentAsync run does at the same time or later.
C20_EmbeddingsDeletedWithDocument ==
    \A q \in 1..MaxRequests :
        (/\ deletes[q].pc = "done"
         /\ deletes[q].docId \in DocIds
         /\ ~documents[deletes[q].docId].isActive) =>
            \A x \in 1..Len(embeddingsDb) :
                embeddingsDb[x].documentId = deletes[q].docId =>
                    ~embeddingsDb[x].isActive

\* No data-store call has failed; deleteDocument has finished and the document
\* is inactive; its run, which went on meanwhile, has completed and stored an
\* active Embedding after the delete's updateMany.
C20_Witness ==
    \E q \in 1..MaxRequests :
        /\ faultsLeft = MaxStoreFaults
        /\ deletes[q].pc = "done"
        /\ deletes[q].docId \in DocIds
        /\ ~documents[deletes[q].docId].isActive
        /\ documents[deletes[q].docId].processingStatus = "completed"
        /\ \E x \in 1..Len(embeddingsDb) :
              /\ embeddingsDb[x].documentId = deletes[q].docId
              /\ embeddingsDb[x].isActive

\* the words of a chunk: its pieces that are not the empty string
WordCount(chunk) == Cardinality({k \in 1..Len(chunk) : chunk[k] > 0})

\* C21 (as stated): for every text and every max word count >= 1, two calls
\* of splitTextIntoChunks return the same chunks, every chunk has at most max
\* words, and every chunk but the last has exactly max words.
C21_ChunksBoundedAndFull ==
    chunkerCall.called =>
        /\ chunkerCall.first = chunkerCall.second
        /\ \A k \in 1..Len(chunkerCall.first) :
              WordCount(chunkerCall.first[k]) <= chunkerCall.maxTokens
        /\ \A k \in 1..(Len(chunkerCall.first) - 1) :
              WordCount(chunkerCall.first[k]) = chunkerCall.maxTokens

\* C21 (amended): two calls return the same chunks, every chunk has at most
\* max words, and every chunk but the last is made of exactly max pieces of
\* text.split(/\s+/): these are max words, except in the first chunk of a text
\* that begins with whitespace, whose first piece is the empty string and
\* which has max - 1 words.
C21_ChunksBoundedAndFullPieces ==
    chunkerCall.called =>
        /\ chunkerCall.first = chunkerCall.second
        /\ \A k \in 1..Len(chunkerCall.first) :
              WordCount(chunkerCall.first[k]) <= chunkerCall.maxTokens
        /\ \A k \in 1..(Len(chunkerCall.first) - 1) :
              /\ Len(chunkerCall.first[k]) = chunkerCall.maxTokens
              /\ WordCount(chunkerCall.first[k]) =
                    IF k = 1 /\ Head(chunkerCall.text) = "s"
                    THEN chunkerCall.maxTokens - 1
                    ELSE chunkerCall.maxTokens

\* " w w" split at two words: the first chunk holds the empty piece and one
\* word, the second chunk the other word.
C21_Witness ==
    /\ chunkerCall.called
    /\ chunkerCall.text = <<"s", "w", "s", "w">>
    /\ chunkerCall.maxTokens = 2
    /\ chunkerCall.first = << <<0, 1>>, <<1>> >>

\* C22: a chat query in which the query embedding, the similarity search or
\* the answer generation failed is answered with the canned not-found
\* response, not with an error.
C22_FailureGivesNotFound ==
    \A c \in 1..MaxRequests :
        (chats[c].pc = "done"
            /\ chats[c].failedAt \in {"embedding", "search", "generation"}) =>
                /\ chats[c].status = 200
                /\ chats[c].reply = defaultAnswers.notFound

\* The embedding call of a query failed: handleChatQuery answered 500, and
\* the socket sent a bot:message of type error that is not the not-found
\* answer.
C22_Witness ==
    \E c \in 1..MaxRequests :
        /\ chats[c].pc = "done"
        /\ chats[c].failedAt = "embedding"
        /\ chats[c].status = 500
        /\ chats[c].reply = TroubleMessage
        /\ chats[c].reply # defaultAnswers.notFound
        /\ \E k \in 1..Len(sockets.emitted) :
              sockets.emitted[k] = BotMessage(c, "error", TroubleMessage)

C29_NeverRaises ==
    answerCall.called =>
        /\ ~answerCall.response.threw
        /\ answerCall.response.confidence \in {3, 8, 9}
        /\ answerCall.response.source \in {"pdf", "default"}
        /\ answerCall.response.source = "pdf" <=> answerCall.response.confidence = 9

\* "what is the solution" with the context "A solution.": the one relevant
\* line has no sentence longer than ten characters, and the call raised.
C29_Witness ==
    /\ answerCall.called
    /\ answerCall.userMessage = "what is the solution"
    /\ answerCall.context = ShortText
    /\ relevantLinesOf(toLowerCase(answerCall.userMessage), ShortText) = <<ShortText>>
    /\ sentencesOf(ShortText) = <<>>
    /\ answerCall.response.threw

\* The first chunk index of every batch of document d, and the batch of an index.
BatchStarts(d) == {b \in 0..Len(Chunks(d)) : b < Len(Chunks(d)) /\ b % BATCH_SIZE = 0}
BatchOf(idx) == idx - (idx % BATCH_SIZE)

\* The outcome of batch b is resolved: its records and progress were stored,
\* or the fallback loop has ended the iteration of every chunk of the batch.
BatchResolved(d, b) ==
    \/ b \in job[d].persisted
    \/ \A idx \in b..(Min(b + BATCH_SIZE, Len(Chunks(d))) - 1) : idx \in job[d].attempted

EarlierResolved(d, batch) ==
    \A b \in BatchStarts(d) : b < batch => BatchResolved(d, b)

\* C24: the batches of one document are processed one after the other: a
\* step that calls the provider, a chunk the provider embeds and an embedding
\* record that is written all belong to a batch whose earlier batches are
\* resolved (stored with the progress, or every chunk tried individually).
C24_BatchesSequential ==
    [][\A d \in DocIds :
          /\ (job[d].pc \in {"batchEmbed", "chunkEmbed"} /\ job'[d] # job[d]) =>
                EarlierResolved(d, job[d].batchIndex)
          /\ \A idx \in job'[d].embedded \ job[d].embedded :
                EarlierResolved(d, BatchOf(idx))
          /\ \A x \in (Len(embeddingsDb) + 1)..Len(embeddingsDb') :
                embeddingsDb'[x].documentId = d =>
                    EarlierResolved(d, BatchOf(embeddingsDb'[x].chunkIndex))]_vars

\* The batch call of the first batch failed after its retries, both of its
\* chunks went through the fallback loop, and the provider has answered the
\* call of the second batch.
C24_Witness ==
    \E d \in DocIds :
        /\ job[d].batchIndex = BATCH_SIZE
        /\ job[d].pc = "insertMany"
        /\ job[d].gaveUp = {0}
        /\ job[d].persisted = {}
        /\ (0..(BATCH_SIZE - 1)) \subseteq job[d].attempted
        /\ BATCH_SIZE \in job[d].embedded

\* The chunk indexes of the batch that starts at b.
BatchIndexes(d, b) == b..(Min(b + BATCH_SIZE, Len(Chunks(d))) - 1)

\* The run of d has left the iteration of the batch that starts at b.
BatchPast(d, b) ==
    \/ job[d].batchIndex > b
    \/ job[d].pc \in {"interBatchDelay", "saveCompleted", "saveFailed", "done"}

RecordsOf(d, idx) ==
    {x \in 1..Len(embeddingsDb) :
        embeddingsDb[x].documentId = d /\ embeddingsDb[x].chunkIndex = idx}

\* After a batch call that failed for good: every chunk of the batch went
\* through the fallback loop, and when the run is over every batch has had
\* its turn.  stored: the chunks the provider embedded have their record, and
\* the run counted them.
FallbackOutcome(d, stored) ==
    /\ \A b \in job[d].gaveUp :
          BatchPast(d, b) =>
              /\ BatchIndexes(d, b) \subseteq job[d].attempted
              /\ stored =>
                    \A idx \in BatchIndexes(d, b) :
                        Cardinality(RecordsOf(d, idx)) =
                            IF idx \in job[d].embedded THEN 1 ELSE 0
    /\ (job[d].gaveUp # {} /\ job[d].pc \in {"saveCompleted", "saveFailed", "done"}) =>
          /\ \A b \in BatchStarts(d) : BatchResolved(d, b)
          /\ stored => job[d].processedChunks = Cardinality(job[d].embedded)

\* Every iteration of the fallback loop starts its own retries, and gives a
\* chunk up only after maxRetries attempts.
FallbackRetries(d) ==
    /\ (job'[d].pc = "chunkEmbed" /\ job[d].pc # "chunkBackoff" /\ job'[d] # job[d]) =>
          job'[d].attempt = 1 /\ job'[d].delays = <<>>
    /\ (job[d].pc = "chunkEmbed" /\ job'[d] # job[d]
            /\ job'[d].pc \notin {"chunkSave", "chunkBackoff"}) =>
          job[d].attempt = maxRetries

DocRecords(d) == {x \in 1..Len(embeddingsDb) : embeddingsDb[x].documentId = d}

\* C26: in every state the number of Embedding records stored for a document
\* equals the document's stored embeddingCount, and no chunk index of the
\* document is stored more than once.
C26_CountMatchesRecords ==
    \A d \in DocIds :
        documents[d].exists =>
            /\ Cardinality(DocRecords(d)) = documents[d].embeddingCount
            /\ \A idx \in 0..Len(Chunks(d)) : Cardinality(RecordsOf(d, idx)) <= 1

\* insertMany was rejected after it had written the first record of the
\* batch; the fallback loop stored the same chunk again and saved a count of
\* one: two records of chunk 0 against embeddingCount 1.
C26_Witness ==
    \E d \in DocIds :
        /\ documents[d].exists
        /\ job[d].gaveUp = {}
        /\ Cardinality(RecordsOf(d, 0)) = 2
        /\ documents[d].embeddingCount = 1
        /\ Cardinality(DocRecords(d)) = 2

(***************************************************************************)
(* Uploads and deletes of tenant 1, one request at a time, on a store that *)
(* never fails; the tenant's plan allows 1..MaxDocuments documents.        *)
(***************************************************************************)
InitSequential ==
    /\ documents = [d \in DocIds |-> NoDocument]
    /\ embeddingsDb = <<>>
    /\ \E m \in 1..MaxDocuments :
          tenants = [t \in TenantIds |-> NewTenant(m, MaxQueries)]
    /\ job = [d \in DocIds |-> NoJob]
    /\ uploads = [r \in 1..MaxRequests |-> NoUpload]
    /\ deletes = [q \in 1..MaxRequests |-> NoDelete]
    /\ chats = [c \in 1..MaxRequests |-> NoChat]
    /\ statusResp = [d \in DocIds |-> NoStatus]
    /\ searchResult = NoSearch
    /\ chatReply = NoReply
    /\ chunkerCall = NoChunkerCall
    /\ answerCall = NoAnswerCall
    /\ sockets = NoSockets
    /\ faultsLeft = 0
    /\ providerFlaky = FALSE

\* No request is being handled.
NoRequestRunning ==
    /\ \A r \in 1..MaxRequests : uploads[r].pc \in {"idle", "done"}
    /\ \A q \in 1..MaxRequests : deletes[q].pc \in {"idle", "done"}

NextSequential ==
    \/ /\ NoRequestRunning
       /\ \E r \in 1..MaxRequests, files \in FileLists : Upload_start(r, 1, files)
    \/ \E r \in 1..MaxRequests :
          \/ Upload_saveDocument(r, TRUE)
          \/ Upload_increment(r, TRUE)
    \/ /\ NoRequestRunning
       /\ \E q \in 1..MaxRequests, d \in DocIds : Delete_start(q, d)
    \/ \E q \in 1..MaxRequests :
          \/ Delete_saveInactive(q, TRUE)
          \/ Delete_tenantFind(q)
          \/ Delete_decrement(q, TRUE)
          \/ Delete_updateMany(q, TRUE)

SpecSequential == InitSequential /\ [][NextSequential]_vars

ActiveDocuments(t) ==
    {d \in DocIds : documents[d].exists /\ documents[d].isActive
                        /\ documents[d].tenantId = t}

\* C27: after any series of uploads and deletes handled one after the
\* other, the tenant's currentDocuments is the number of its active
\* documents, also after a second deleteDocument of the same document.
C27_CounterIsActiveDocuments ==
    NoRequestRunning =>
        \A t \in TenantIds :
            tenants[t].currentDocuments = Cardinality(ActiveDocuments(t))

\* Two documents were uploaded and the same one was deleted twice: one
\* document is still active and the counter is at 0.
C27_Witness ==
    /\ NoRequestRunning
    /\ deletes[1].pc = "done" /\ deletes[2].pc = "done"
    /\ deletes[1].docId # 0 /\ deletes[1].docId = deletes[2].docId
    /\ Cardinality(ActiveDocuments(1)) = 1
    /\ tenants[1].docIncs = 2 /\ tenants[1].docDecs = 2
    /\ tenants[1].currentDocuments = 0

\* C28: uploadDocuments never raises a tenant's currentDocuments above its
\* maxDocuments.
C28_QuotaNeverExceeded ==
    \A t \in TenantIds : tenants[t].currentDocuments <= tenants[t].maxDocuments

\* One request with two files for a tenant whose plan allows one document:
\* the gate saw 0 < 1 once, both files were accepted.
C28_Witness ==
    \E r \in 1..MaxRequests :
        /\ uploads[r].pc = "done"
        /\ tenants[1].maxDocuments = 1
        /\ tenants[1].docIncs = 2 /\ tenants[1].docDecs = 0
        /\ tenants[1].currentDocuments = 2
        /\ Cardinality(ActiveDocuments(1)) = 2
        /\ \A q \in 1..MaxRequests : deletes[q].pc = "idle"

\* The positions in the emitted events of the bot:message events and of the
\* bot:typing events sent for user:message m.
BotMessagesOf(m) ==
    {k \in 1..Len(sockets.emitted) :
        sockets.emitted[k].event = "bot:message" /\ sockets.emitted[k].of = m}
TypingOf(m, isTyping) ==
    {k \in 1..Len(sockets.emitted) : sockets.emitted[k] = TypingEvent(m, isTyping)}

\* user:message m has arrived with a message that is a non-empty string.
WellFormed(m) ==
    sockets.handler[m].pc # "idle" /\ sockets.handler[m].message # ""

AnsweredOnce(m) ==
    /\ Cardinality(BotMessagesOf(m)) <= 1
    /\ (WellFormed(m) /\ sockets.handler[m].pc = "done") =>
          Cardinality(BotMessagesOf(m)) = 1
    /\ \A b \in BotMessagesOf(m) :
          /\ WellFormed(m)
          /\ sockets.emitted[b].type \in {"response", "error"}
          /\ \A k \in TypingOf(m, TRUE) :
                k < b /\ \E f \in TypingOf(m, FALSE) : k < f /\ f < b

\* C30: every well-formed user:message is eventually answered by exactly one
\* bot:message, of type response or error, and a bot:typing true sent for
\* the message is followed by a bot:typing false before that bot:message, on
\* the success path and on the failure path.
C30_AnsweredOnceTypingStopped ==
    /\ [](\A m \in 1..MaxRequests : AnsweredOnce(m))
    /\ \A m \in 1..MaxRequests :
          WellFormed(m) ~> (Cardinality(BotMessagesOf(m)) = 1)

\* With the typing indicator on, one message was answered with a response
\* and the other, whose embedding call failed, with an error; each got its
\* bot:typing true, then false, then its bot:message.
C30_Witness ==
    /\ sockets.enableTypingIndicator
    /\ \E m1, m2 \in 1..MaxRequests :
          /\ m1 # m2
          /\ sockets.handler[m1].pc = "done" /\ sockets.handler[m2].pc = "done"
          /\ chats[m1].status = 200 /\ chats[m2].failedAt = "embedding"
          /\ \E b \in BotMessagesOf(m1) : sockets.emitted[b].type = "response"
          /\ \E b \in BotMessagesOf(m2) :
                /\ sockets.emitted[b].type = "error"
                /\ \E k \in TypingOf(m2, TRUE), f \in TypingOf(m2, FALSE) :
                      k < f /\ f < b
          /\ Len(sockets.emitted) = 6

=============================================================================
